---- MODULE Spec2Model ----
(***************************************************************************)
(* kakapo-server: the action pipeline (leaf actions and their decorators), *)
(* the pub/sub store with its message log, and the websocket session with  *)
(* its delivery loop.                                                      *)
(*                                                                         *)
(* Time is counted in microseconds.  A pipeline execution is one atomic    *)
(* step on a worker that holds the database connection; the session is an  *)
(* actor whose `.wait()` on a worker reply suspends it until the reply.    *)
(***************************************************************************)
EXTENDS Integers, Sequences, FiniteSets, TLC

VARIABLES db, last, sess, clock, ticks

vars == <<db, last, sess, clock, ticks>>

-----------------------------------------------------------------------------
(* Bounds of the model *)

\* number of clock advances in one behaviour
MaxTicks == 2
\* number of messages the log holds in one behaviour
MaxLog == 2
\* number of pipeline executions made outside the session in one behaviour
MaxExecs == 1
\* number of frames the client sends on the session in one behaviour
MaxInbound == 2
\* number of leaf actions called directly in one behaviour
MaxLeafCalls == 2
\* number of subscription requests in one behaviour
MaxSubCalls == 2
\* number of seconds a behaviour of the heartbeat lasts
MaxBeatSeconds == 725

-----------------------------------------------------------------------------
(* Program constants: broker/mod.rs *)

\* const MESSAGE_LAG: Duration = Duration::from_micros(50)
MESSAGE_LAG == 50
\* const MESSAGE_INTERVAL: Duration = Duration::from_millis(500)
MESSAGE_INTERVAL_MS == 500
MESSAGE_INTERVAL == MESSAGE_INTERVAL_MS * 1000
\* const HEARTBEAT_INTERVAL: Duration::from_secs(60), HEARTBEAT_TIMEOUT:
\* Duration::from_secs(600), in microseconds like the clock
HEARTBEAT_INTERVAL_S == 60
HEARTBEAT_TIMEOUT_S == 600
Second == 1000000
HEARTBEAT_INTERVAL == HEARTBEAT_INTERVAL_S * Second
HEARTBEAT_TIMEOUT == HEARTBEAT_TIMEOUT_S * Second
HEARTBEAT_MESSAGE == "Hello"

-----------------------------------------------------------------------------
(* Users, claims, entities *)

Users == {"A", "B"}

NoClaims == [sub |-> "-", is_admin |-> FALSE, logged_in |-> FALSE]

\* Option<AuthClaims>: the claims a request carries, or none
Callers == {NoClaims} \cup [sub : Users, is_admin : BOOLEAN, logged_in : {TRUE}]

EntityTypes == {"Table", "Query"}

Names == {"t1", "t2"}

NONE == "none"

\* the payload of an entity; "empty" is a schema of zero columns
Data == {"a", "b", "empty"}

columns_len(data) == IF data = "empty" THEN 0 ELSE 1

-----------------------------------------------------------------------------
(* model/auth/permissions.rs *)

\* the type_name every constructor writes, whatever T is
TYPE_NAME == "temporary..."

read_entity(T, name) == <<"GetEntity", TYPE_NAME, name>>

create_entity(T) == <<"CreateEntity", TYPE_NAME, "">>

modify_entity(T, name) == <<"ModifyEntity", TYPE_NAME, name>>

get_table_data(name) == <<"GetTableData", "", name>>

Permissions ==
    {read_entity(T, n) : T \in EntityTypes, n \in Names}
    \cup {create_entity(T) : T \in EntityTypes}
    \cup {modify_entity(T, n) : T \in EntityTypes, n \in Names}
    \cup {get_table_data(n) : n \in Names}

-----------------------------------------------------------------------------
(* model/state.rs: Channels *)

AllTables == <<"AllTables", "">>

ChTable(name) == <<"Table", name>>

ChQuery(name) == <<"Query", name>>

ChTableData(name) == <<"TableData", name>>

\* Channels::all_entities::<T>() returns AllTables for every T
all_entities(T) == AllTables

\* Channels::entity::<T>(name) returns Table(name) for every T
entity(T, name) == ChTable(name)

\* pub_sub_actions.rs: Channels::required_permission
required_permission(ch) ==
    CASE ch[1] = "Table" -> read_entity("Table", ch[2])
      [] ch[1] = "Query" -> read_entity("Query", ch[2])
      [] ch[1] = "Script" -> read_entity("Script", ch[2])
      [] ch[1] = "TableData" -> get_table_data(ch[2])

\* the channels a user can name in subscribeTo
SubChannels == {ChTable("t1"), ChTable("t2"), ChTableData("t1")}

\* the channels a message can be logged under
LogChannels == SubChannels \cup {AllTables}

-----------------------------------------------------------------------------
(* model/state.rs: UserInfo *)

\* fn user_id(&self) -> Option<i64>
user_id(caller) == IF caller.logged_in THEN caller.sub ELSE NONE

\* fn is_admin(&self) -> bool : claims.map(is_user_admin).unwrap_or(false)
is_admin(caller) == caller.logged_in /\ caller.is_admin

\* fn permissions(&self) -> Option<HashSet<Permission>> : the stored grants of
\* the user, and none without claims; has_permissions tells the two apart
has_permissions(caller) == caller.logged_in

get_permissions(d, caller) == IF caller.logged_in THEN d.grants[caller.sub] ELSE {}

\* fn all_permissions(&self) -> HashSet<Permission>
get_all_permissions(d) == UNION {d.grants[u] : u \in Users}

-----------------------------------------------------------------------------
(* The database: entity store, stored grants, subscriptions, message log *)

EmptyStore == [T \in EntityTypes |-> [n \in Names |-> NONE]]

\* a message of the log
Message(id, ch, at) == [message_id |-> id, channel |-> ch, created_at |-> at]

-----------------------------------------------------------------------------
(* Results of actions: model/actions/results, model/actions/error.rs *)

Ok(tag, id, old, new) == [id |-> id, tag |-> tag, old |-> old, new |-> new, kind |-> "Ok",
                          list |-> <<>>]

OkList(tag, list) == [id |-> "", tag |-> tag, old |-> "", new |-> "", kind |-> "Ok",
                      list |-> list]

Err(e) == [id |-> "", tag |-> e, old |-> "", new |-> "", kind |-> "Err", list |-> <<>>]

\* the thread unwinds: unimplemented!()
Panic == [id |-> "", tag |-> "not yet implemented", old |-> "", new |-> "", kind |-> "Panic",
          list |-> <<>>]

\* what a call leaves behind: its result, the database state it leaves on
\* the connection, and the events of the call in order
Outcome(ret, d, trace) == [db |-> d, ret |-> ret, trace |-> trace]

\* how the storage backend answers a leaf: "none" all statements succeed,
\* "db" the leaf's last statement fails
Faults == {"none", "db"}

-----------------------------------------------------------------------------
(* database/update_state.rs: the physical schema change of a Table *)

\* a physical step that accepts any schema
create_entity_table_any(data) == "Ok"

\* UpdateActionFunctions::create_entity for data::Table
create_entity_table(data) == IF columns_len(data) = 0 THEN "NoColumns" ELSE "Ok"

\* UpdateActionFunctions::update_entity for data::Table: unimplemented!()
update_entity_table(old, new) == "Panic"

\* UpdateActionFunctions::delete_entity for data::Table: DROP TABLE
delete_entity_table(old) == "Ok"

\* the physical step of an entity type; only Table has one in the sources
physical_create(T, data) == IF T = "Table" THEN create_entity_table(data) ELSE "Ok"

physical_update(T, old, new) == IF T = "Table" THEN update_entity_table(old, new) ELSE "Ok"

physical_delete(T, old) == IF T = "Table" THEN delete_entity_table(old) ELSE "Ok"

-----------------------------------------------------------------------------
(* model/entity: the entity store (ModifierFunctions, RetrieverFunctions). *)
(* Each returns [tag, old, new, store]; an error tag leaves the rows the   *)
(* statements before it wrote on the connection.                           *)

StoreRes(tag, old, new, store) == [tag |-> tag, old |-> old, new |-> new, store |-> store]

Put(store, T, name, data) == [store EXCEPT ![T][name] = data]

\* the metadata row is written, then the physical step runs
Written(tag, old, new, store, phys, f) ==
    IF phys = "Panic" THEN StoreRes("Panic", old, new, store)
    ELSE IF phys # "Ok" THEN StoreRes(phys, old, new, store)
    ELSE IF f = "db" THEN StoreRes("InternalError", old, new, store)
    ELSE StoreRes(tag, old, new, store)

EM_create(store, T, name, data, f) ==
    IF store[T][name] # NONE
    THEN IF f = "db" THEN StoreRes("InternalError", "", "", store)
         ELSE StoreRes("Fail", store[T][name], "", store)
    ELSE Written("Success", "", data, Put(store, T, name, data), physical_create(T, data), f)

EM_upsert(store, T, name, data, f) ==
    IF store[T][name] # NONE
    THEN Written("Update", store[T][name], data, Put(store, T, name, data),
                 physical_update(T, store[T][name], data), f)
    ELSE Written("Create", "", data, Put(store, T, name, data), physical_create(T, data), f)

EM_update(store, T, name, data, f) ==
    IF store[T][name] = NONE
    THEN IF f = "db" THEN StoreRes("InternalError", "", "", store)
         ELSE StoreRes("Fail", "", "", store)
    ELSE Written("Success", store[T][name], data, Put(store, T, name, data),
                 physical_update(T, store[T][name], data), f)

EM_delete(store, T, name, f) ==
    IF store[T][name] = NONE
    THEN IF f = "db" THEN StoreRes("InternalError", "", "", store)
         ELSE StoreRes("Fail", "", "", store)
    ELSE Written("Success", store[T][name], "", Put(store, T, name, NONE),
                 physical_delete(T, store[T][name]), f)

\* Names in the order the store returns them
NameOrder == <<"t1", "t2">>

ER_get_all(store, T) == SelectSeq(NameOrder, LAMBDA n : store[T][n] # NONE)

ER_get_one(store, T, name) == store[T][name]

\* .or_else(|err| Err(Error::Entity(err))): an error tag becomes Error::Entity
EntityErr(r) ==
    IF r.tag = "Panic" THEN Panic
    ELSE IF r.tag = "NoColumns" THEN Err("Entity(NoColumns)")
    ELSE Err("Entity(InternalError)")

IsStoreError(r) == r.tag \in {"Panic", "NoColumns", "InternalError"}

-----------------------------------------------------------------------------
(* state/mod.rs: PubSubOps, the subscription store and the message log *)

subscribe(subs, u, ch) == subs \cup {<<u, ch>>}

unsubscribe(subs, u, ch) == subs \ {<<u, ch>>}

unsubscribe_all(subs, u) == {x \in subs : x[1] # u}

get_subscribers(subs, ch) == SelectSeq(<<"A", "B">>, LAMBDA u : <<u, ch>> \in subs)

\* the positions of the log entries get_messages(user, start, end) returns
Matching(d, u, start, end) ==
    {i \in 1..Len(d.log) :
        /\ start <= d.log[i].created_at
        /\ d.log[i].created_at < end
        /\ <<u, d.log[i].channel>> \in d.subs}

\* get_messages returns the matching entries ordered by created_at ascending;
\* entries of equal created_at come in either order
get_messages(d, u, start, end) ==
    LET I == Matching(d, u, start, end)
        n == Cardinality(I)
    IN  {[k \in 1..n |-> d.log[q[k]]] :
            q \in {q \in [1..n -> I] :
                    /\ \A j, k \in 1..n : j # k => q[j] # q[k]
                    /\ \A j, k \in 1..n :
                         j < k => d.log[q[j]].created_at <= d.log[q[k]].created_at}}

\* publish appends one message per call, stamped with the time of the call
publish(d, ch, now) ==
    [d EXCEPT !.log = Append(@, Message(Len(@) + 1, ch, now))]

-----------------------------------------------------------------------------
(* model/actions/decorator.rs *)

\* Requirements::is_permitted
is_permitted(mode, required, user_permissions) ==
    IF mode = "AllOf"
    THEN \A p \in required : p \in user_permissions
    ELSE \E p \in required : p \in user_permissions

Denied(d) == Outcome(Err("Unauthorized"), d, <<"guard">>)

Entered(inner) == Outcome(inner.ret, inner.db, <<"guard">> \o inner.trace)

\* a guard that lets every caller through
WithPermissionRequired_open(d, caller, permission, inner) == Entered(inner)

\* WithPermissionRequired::call, built by new(action, permission): AnyOf
WithPermissionRequired(d, caller, permission, inner) ==
    IF is_admin(caller) THEN Entered(inner)
    ELSE IF is_permitted("AnyOf", {permission}, get_permissions(d, caller))
         THEN Entered(inner)
         ELSE Denied(d)

\* a login guard that lets a request without claims through
WithLoginRequired_open(d, caller, inner) == Entered(inner)

\* WithLoginRequired::call
WithLoginRequired(d, caller, inner) ==
    IF is_admin(caller) THEN Entered(inner)
    ELSE IF has_permissions(caller) THEN Entered(inner)
         ELSE Denied(d)

\* WithPermissionFor::call; permitted is the closure applied to
\* (user_permissions, all_permissions)
WithPermissionFor(d, caller, permitted, inner) ==
    IF is_admin(caller) THEN Entered(inner)
    ELSE IF permitted THEN Entered(inner)
         ELSE Denied(d)

\* a transaction that keeps what the inner wrote whatever the inner returns
WithTransaction_keep(d, inner) ==
    Outcome(inner.ret, inner.db,
            <<"begin">> \o inner.trace \o <<IF inner.ret.kind = "Ok" THEN "commit" ELSE "rollback">>)

\* WithTransaction::call: conn.transaction(|| inner): commit on Ok, rollback
\* on Err; a panic unwinds through it and nothing is committed
WithTransaction(d, inner) ==
    IF inner.ret.kind = "Ok"
    THEN Outcome(inner.ret, inner.db, <<"begin">> \o inner.trace \o <<"commit">>)
    ELSE Outcome(inner.ret, d, <<"begin">> \o inner.trace \o <<"rollback">>)

\* a dispatch that logs a message before it looks at the inner's result
WithDispatch_early(d, channels, inner) ==
    IF inner.ret.kind # "Ok"
    THEN Outcome(inner.ret, publish(inner.db, channels[1], 0), inner.trace \o <<"dispatch">>)
    ELSE Outcome(Panic, inner.db, inner.trace \o <<"dispatch">>)

\* WithDispatch::call: `self.action.call(state)?` then unimplemented!()
WithDispatch(d, channels, inner) ==
    IF inner.ret.kind # "Ok" THEN inner
    ELSE Outcome(Panic, inner.db, inner.trace \o <<"dispatch">>)

-----------------------------------------------------------------------------
(* model/actions/entity_actions.rs *)

\* a filter that answers an empty list when its inner failed
WithFilterListByPermission_swallow(d, caller, T, inner) ==
    IF inner.ret.kind # "Ok"
    THEN Outcome(OkList("GetAllEntities", <<>>), inner.db, inner.trace \o <<"filter">>)
    ELSE Outcome(OkList(inner.ret.tag,
                        SelectSeq(inner.ret.list,
                                  LAMBDA n : read_entity(T, n) \in get_permissions(d, caller))),
                 inner.db, inner.trace \o <<"filter">>)

\* WithFilterListByPermission::call
WithFilterListByPermission(d, caller, T, inner) ==
    LET user_permissions == get_permissions(d, caller)
    IN  IF inner.ret.kind # "Ok" THEN inner
        ELSE Outcome(OkList(inner.ret.tag,
                            SelectSeq(inner.ret.list,
                                      LAMBDA n : read_entity(T, n) \in user_permissions)),
                     inner.db, inner.trace \o <<"filter">>)

\* GetAllEntities::call
GetAllEntities_call(d, T, f) ==
    IF f = "db" THEN Outcome(Err("Entity(InternalError)"), d, <<"leaf">>)
    ELSE Outcome(OkList("GetAllEntities", ER_get_all(d.store, T)), d, <<"leaf">>)

\* a pipeline that filters inside the transaction
GetAllEntities_new_inside(d, caller, T, f) ==
    WithTransaction(d, WithFilterListByPermission(d, caller, T, GetAllEntities_call(d, T, f)))

\* GetAllEntities::new
GetAllEntities_new(d, caller, T, f) ==
    WithFilterListByPermission(d, caller, T, WithTransaction(d, GetAllEntities_call(d, T, f)))

\* GetEntity::call
GetEntity_call(d, T, name, f) ==
    IF f = "db" THEN Outcome(Err("Entity(InternalError)"), d, <<"leaf">>)
    ELSE IF ER_get_one(d.store, T, name) = NONE THEN Outcome(Err("NotFound"), d, <<"leaf">>)
    ELSE Outcome(Ok("GetEntity", name, "", ER_get_one(d.store, T, name)), d, <<"leaf">>)

\* GetEntity::new
GetEntity_new(d, caller, T, name, f) ==
    WithPermissionRequired(d, caller, read_entity(T, name),
                           WithTransaction(d, GetEntity_call(d, T, name, f)))

LeafOutcome(d, r, ret) ==
    Outcome(IF IsStoreError(r) THEN EntityErr(r) ELSE ret, [d EXCEPT !.store = r.store], <<"leaf">>)

\* a create that treats the policy Fail as it treats Ignore
CreateEntity_call_lenient(d, T, name, data, on_duplicate, f) ==
    IF on_duplicate = "Update"
    THEN LET r == EM_upsert(d.store, T, name, data, f)
         IN  LeafOutcome(d, r, IF r.tag = "Update" THEN Ok("Updated", name, r.old, r.new)
                                ELSE Ok("Created", name, "", r.new))
    ELSE LET r == EM_create(d.store, T, name, data, f)
         IN  LeafOutcome(d, r, IF r.tag = "Success" THEN Ok("Created", name, "", r.new)
                                ELSE Ok("AlreadyExists", name, r.old, data))

\* a create that treats the policy Ignore as it treats Fail
CreateEntity_call_strict(d, T, name, data, on_duplicate, f) ==
    IF on_duplicate = "Update"
    THEN LET r == EM_upsert(d.store, T, name, data, f)
         IN  LeafOutcome(d, r, IF r.tag = "Update" THEN Ok("Updated", name, r.old, r.new)
                                ELSE Ok("Created", name, "", r.new))
    ELSE LET r == EM_create(d.store, T, name, data, f)
         IN  LeafOutcome(d, r, IF r.tag = "Success" THEN Ok("Created", name, "", r.new)
                                ELSE Err("AlreadyExists"))

\* CreateEntity::call
CreateEntity_call(d, T, name, data, on_duplicate, f) ==
    IF on_duplicate = "Update"
    THEN LET r == EM_upsert(d.store, T, name, data, f)
         IN  LeafOutcome(d, r, IF r.tag = "Update" THEN Ok("Updated", name, r.old, r.new)
                                ELSE Ok("Created", name, "", r.new))
    ELSE LET r == EM_create(d.store, T, name, data, f)
         IN  LeafOutcome(d, r, IF r.tag = "Success" THEN Ok("Created", name, "", r.new)
                                ELSE IF on_duplicate = "Ignore"
                                     THEN Ok("AlreadyExists", name, r.old, data)
                                     ELSE Err("AlreadyExists"))

\* the closure CreateEntity::new hands to WithPermissionFor
create_permitted(T, name, on_duplicate, user_permissions, all_permissions) ==
    IF on_duplicate = "Update"
    THEN IF modify_entity(T, name) \in all_permissions
         THEN modify_entity(T, name) \in user_permissions
         ELSE create_entity(T) \in user_permissions
    ELSE create_entity(T) \in user_permissions

\* CreateEntity::new: on_duplicate is always Ignore
CreateEntity_new(d, caller, T, name, data, f) ==
    WithPermissionFor(d, caller,
        create_permitted(T, name, "Ignore", get_permissions(d, caller), get_all_permissions(d)),
        WithDispatch(d, <<all_entities(T)>>,
            WithTransaction(d, CreateEntity_call(d, T, name, data, "Ignore", f))))

\* UpdateEntity::call
UpdateEntity_call(d, T, name, data, on_not_found, f) ==
    LET r == EM_update(d.store, T, name, data, f)
    IN  LeafOutcome(d, r, IF r.tag = "Success" THEN Ok("Updated", name, r.old, r.new)
                           ELSE IF on_not_found = "Ignore"
                                THEN Ok("NotFound", name, "", data)
                                ELSE Err("NotFound"))

\* UpdateEntity::new: on_not_found is always Ignore
UpdateEntity_new(d, caller, T, name, data, f) ==
    WithPermissionRequired(d, caller, modify_entity(T, name),
        WithDispatch(d, <<all_entities(T), entity(T, name)>>,
            WithTransaction(d, UpdateEntity_call(d, T, name, data, "Ignore", f))))

\* DeleteEntity::call
DeleteEntity_call(d, T, name, on_not_found, f) ==
    LET r == EM_delete(d.store, T, name, f)
    IN  LeafOutcome(d, r, IF r.tag = "Success" THEN Ok("Deleted", name, r.old, "")
                           ELSE IF on_not_found = "Ignore"
                                THEN Ok("NotFound", name, "", "")
                                ELSE Err("NotFound"))

\* DeleteEntity::new: on_not_found is always Ignore
\* a constructor that opens the transaction before the guard has checked
DeleteEntity_new_unguarded(d, caller, T, name, f) ==
    WithDispatch(d, <<all_entities(T), entity(T, name)>>,
        WithTransaction(d,
            WithPermissionRequired(d, caller, modify_entity(T, name),
                                   DeleteEntity_call(d, T, name, "Ignore", f))))

DeleteEntity_new(d, caller, T, name, f) ==
    WithPermissionRequired(d, caller, modify_entity(T, name),
        WithDispatch(d, <<all_entities(T), entity(T, name)>>,
            WithTransaction(d, DeleteEntity_call(d, T, name, "Ignore", f))))

-----------------------------------------------------------------------------
(* model/actions/pub_sub_actions.rs *)

NoUser(d) == Outcome(Err("Unauthorized"), d, <<"leaf">>)

PubSubFailed(d) == Outcome(Err("PublishError"), d, <<"leaf">>)

\* a subscribe that removes the pair when the store already holds it
SubscribeTo_call_toggle(d, caller, ch, f) ==
    IF user_id(caller) = NONE THEN NoUser(d)
    ELSE IF f = "db" THEN PubSubFailed(d)
    ELSE IF <<user_id(caller), ch>> \in d.subs
         THEN Outcome(Ok("Unsubscribed", user_id(caller), "", ch[2]),
                      [d EXCEPT !.subs = unsubscribe(@, user_id(caller), ch)], <<"leaf">>)
         ELSE Outcome(Ok("Subscribed", user_id(caller), "", ch[2]),
                      [d EXCEPT !.subs = subscribe(@, user_id(caller), ch)], <<"leaf">>)

\* SubscribeTo::call
SubscribeTo_call(d, caller, ch, f) ==
    IF user_id(caller) = NONE THEN NoUser(d)
    ELSE IF f = "db" THEN PubSubFailed(d)
    ELSE Outcome(Ok("Subscribed", user_id(caller), "", ch[2]),
                 [d EXCEPT !.subs = subscribe(@, user_id(caller), ch)], <<"leaf">>)

\* a subscribe pipeline that asks for a login only
SubscribeTo_new_login(d, caller, ch, f) ==
    WithLoginRequired(d, caller, WithTransaction(d, SubscribeTo_call(d, caller, ch, f)))

\* SubscribeTo::new
SubscribeTo_new(d, caller, ch, f) ==
    WithPermissionRequired(d, caller, required_permission(ch),
                           WithTransaction(d, SubscribeTo_call(d, caller, ch, f)))

\* UnsubscribeFrom::call
UnsubscribeFrom_call(d, caller, ch, f) ==
    IF user_id(caller) = NONE THEN NoUser(d)
    ELSE IF f = "db" THEN PubSubFailed(d)
    ELSE Outcome(Ok("Unsubscribed", user_id(caller), "", ch[2]),
                 [d EXCEPT !.subs = unsubscribe(@, user_id(caller), ch)], <<"leaf">>)

\* UnsubscribeFrom::new
UnsubscribeFrom_new(d, caller, ch, f) ==
    WithLoginRequired(d, caller, WithTransaction(d, UnsubscribeFrom_call(d, caller, ch, f)))

\* UnsubscribeAll::call
UnsubscribeAll_call(d, caller, f) ==
    IF user_id(caller) = NONE THEN NoUser(d)
    ELSE IF f = "db" THEN PubSubFailed(d)
    ELSE Outcome(Ok("UnsubscribedAll", user_id(caller), "", ""),
                 [d EXCEPT !.subs = unsubscribe_all(@, user_id(caller))], <<"leaf">>)

\* UnsubscribeAll::new
UnsubscribeAll_new(d, caller, f) ==
    WithLoginRequired(d, caller, WithTransaction(d, UnsubscribeAll_call(d, caller, f)))

\* GetSubscribers::call
GetSubscribers_call(d, ch, f) ==
    IF f = "db" THEN PubSubFailed(d)
    ELSE Outcome(OkList("GetAllSubscribers", get_subscribers(d.subs, ch)), d, <<"leaf">>)

\* GetSubscribers::new
GetSubscribers_new(d, caller, ch, f) ==
    WithPermissionRequired(d, caller, required_permission(ch),
                           WithTransaction(d, GetSubscribers_call(d, ch, f)))

\* a leaf that passes on the first message only
GetMessages_call_first(d, caller, lst, f) ==
    IF user_id(caller) = NONE THEN NoUser(d)
    ELSE IF f = "db" THEN PubSubFailed(d)
    ELSE Outcome(OkList("GetMessages", IF lst = <<>> THEN lst ELSE <<lst[1]>>), d, <<"leaf">>)

\* GetMessages::call; lst is the answer of get_messages
GetMessages_call(d, caller, lst, f) ==
    IF user_id(caller) = NONE THEN NoUser(d)
    ELSE IF f = "db" THEN PubSubFailed(d)
    ELSE Outcome(OkList("GetMessages", lst), d, <<"leaf">>)

\* GetMessages::new
GetMessages_new(d, caller, lst, f) ==
    WithLoginRequired(d, caller, WithTransaction(d, GetMessages_call(d, caller, lst, f)))

\* what get_messages may answer the caller for the window [start, end)
Answers(d, caller, start, end) ==
    IF user_id(caller) = NONE THEN {<<>>}
    ELSE get_messages(d, user_id(caller), start, end)

-----------------------------------------------------------------------------
(* broker/routes.rs: call_procedure, the procedures and their actions *)

\* data::utils::OnDuplicate, OnNotFound
OnDuplicates == {"Update", "Ignore", "Fail"}

OnNotFounds == {"Ignore", "Fail"}

\* the names call_procedure matches
Procedures ==
    {"getAllTables", "getAllQueries", "getAllScripts",
     "getTable", "getQuery", "getScript",
     "createTable", "createQuery", "createScript",
     "updateTable", "updateQuery", "updateScript",
     "deleteTable", "deleteQuery", "deleteScript",
     "queryTableData", "insertTableData", "modifyTableData", "removeTableData",
     "runQuery", "runScript",
     "subscribeTo", "unsubscribeFrom", "getSubscribers", "getMessages"}

\* the names a call frame of the modelled client carries
ProcedureNames == Procedures \cup {"getAllViews", ""}

\* a request; policy is the on_duplicate / on_not_found of the action, which
\* every constructor sets to Ignore
Op(proc, T, name, data, ch) ==
    [data |-> data, T |-> T, name |-> name, ch |-> ch, start |-> 0, end |-> 0, proc |-> proc,
     policy |-> "Ignore"]

\* an action value built with its pub fields set directly
WithPolicy(op, p) == [op EXCEPT !.policy = p]

\* a getMessages request for the window [start, end)
WithWindow(op, start, end) == [op EXCEPT !.start = start, !.end = end]

NoCh == <<"", "">>

EntityOps ==
    {Op("create", T, n, x, NoCh) : T \in EntityTypes, n \in Names, x \in Data}
    \cup {Op("update", T, n, x, NoCh) : T \in EntityTypes, n \in Names, x \in Data}
    \cup {Op("delete", T, n, "", NoCh) : T \in EntityTypes, n \in Names}
    \cup {Op("get", T, n, "", NoCh) : T \in EntityTypes, n \in Names}
    \cup {Op("getAll", T, "", "", NoCh) : T \in EntityTypes}

PubSubOpsSet ==
    {Op("subscribeTo", "", "", "", ch) : ch \in SubChannels}
    \cup {Op("unsubscribeFrom", "", "", "", ch) : ch \in SubChannels}
    \cup {Op("getSubscribers", "", "", "", ch) : ch \in SubChannels}
    \cup {Op("unsubscribeAll", "", "", "", NoCh)}

Ops == EntityOps \cup PubSubOpsSet

WriteProcs == {"create", "update", "delete"}

\* the pipeline of a procedure, run on the database state d
RunPipeline(d, caller, op, f) ==
    CASE op.proc = "create" -> CreateEntity_new(d, caller, op.T, op.name, op.data, f)
      [] op.proc = "update" -> UpdateEntity_new(d, caller, op.T, op.name, op.data, f)
      [] op.proc = "delete" -> DeleteEntity_new(d, caller, op.T, op.name, f)
      [] op.proc = "get" -> GetEntity_new(d, caller, op.T, op.name, f)
      [] op.proc = "getAll" -> GetAllEntities_new(d, caller, op.T, f)
      [] op.proc = "subscribeTo" -> SubscribeTo_new(d, caller, op.ch, f)
      [] op.proc = "unsubscribeFrom" -> UnsubscribeFrom_new(d, caller, op.ch, f)
      [] op.proc = "getSubscribers" -> GetSubscribers_new(d, caller, op.ch, f)
      [] op.proc = "unsubscribeAll" -> UnsubscribeAll_new(d, caller, f)

-----------------------------------------------------------------------------
(* The session: broker/mod.rs, WsClientSession *)

Tokens == {"tokA", "bad"}

\* jsonwebtoken::decode: the claims of a token that validates
ValidToken(tok) == tok \in {"tokA", "tokB"}

Decode(tok) ==
    CASE tok = "tokA" -> [sub |-> "A", is_admin |-> FALSE, logged_in |-> TRUE]
      [] tok = "tokB" -> [sub |-> "B", is_admin |-> FALSE, logged_in |-> TRUE]
      [] OTHER -> NoClaims

\* ActionWrapper::with_auth: the claims the worker runs the action under
ClaimsOf(auth_header) == IF auth_header = NONE THEN NoClaims ELSE Decode(auth_header)

Frame(kind, id, ch, at, text) == [ch |-> ch, id |-> id, at |-> at, kind |-> kind, text |-> text]

\* serde_json::to_string(&message_res): the frame carrying one message
MessageFrame(m) == Frame("message", m.message_id, m.channel, m.created_at, "")

ErrorFrame(text) == Frame("error", 0, NoCh, 0, text)

TextFrame(text) == Frame("text", 0, NoCh, 0, text)

NoPending == [kind |-> "none", start |-> 0, end |-> 0, op |-> Op("", "", "", "", NoCh),
              auth |-> NONE]

\* a session that takes up the watermark where the log begins
NewSession_resume(now) ==
    [auth_header |-> NONE, open |-> TRUE, last_message |-> 0, opened_at |-> now,
     next_poll |-> now + MESSAGE_INTERVAL, pending |-> NoPending, out |-> <<>>, inbound |-> 0,
     last_beat |-> now, next_beat |-> now + HEARTBEAT_INTERVAL, why |-> ""]

\* WsClientSession::new at time now, before started()
NewSession(now) ==
    [auth_header |-> NONE, open |-> TRUE, last_message |-> now, opened_at |-> now,
     next_poll |-> now + MESSAGE_INTERVAL, pending |-> NoPending, out |-> <<>>, inbound |-> 0,
     last_beat |-> now, next_beat |-> now + HEARTBEAT_INTERVAL, why |-> ""]

\* ctx.stop(); why records the statement that stopped the actor
Stop(s, why) == [s EXCEPT !.open = FALSE, !.why = why]

PingFrame(text) == Frame("ping", 0, NoCh, 0, text)

PongFrame(text) == Frame("pong", 0, NoCh, 0, text)

\* heartbeat_process: a timeout stops the actor, otherwise a ping is sent;
\* the timer is set again either way
heartbeat_process(s, now) ==
    IF now - s.last_beat > HEARTBEAT_TIMEOUT
    THEN [Stop(s, "timeout") EXCEPT !.next_beat = now + HEARTBEAT_INTERVAL]
    ELSE [s EXCEPT !.out = Append(@, PingFrame(HEARTBEAT_MESSAGE)),
                   !.next_beat = now + HEARTBEAT_INTERVAL]

\* a pong handler that accepts every payload
handle_pong_any(s, message) == s

\* StreamHandler::handle, ws::Message::Pong(message)
handle_pong(s, message) == IF message # HEARTBEAT_MESSAGE THEN Stop(s, "pong") ELSE s

\* StreamHandler::handle, ws::Message::Ping(x): ctx.pong(&x)
handle_ping(s, x) == [s EXCEPT !.out = Append(@, PongFrame(x))]

\* StreamHandler::handle, ws::Message::Binary(_)
handle_binary(s) == [s EXCEPT !.out = Append(@, ErrorFrame("Binary format not supported"))]

\* StreamHandler::handle, ws::Message::Close(_)
handle_close(s) == Stop(s, "close")

\* StreamHandler::handle, ws::Message::Text whose text is no WsInputData
handle_text_unparsed(s) == [s EXCEPT !.out = Append(@, ErrorFrame("Could not understand message"))]

\* an error arm that also stops the actor
CallAction_error_stop(s) ==
    Stop([s EXCEPT !.out = Append(@, ErrorFrame("Did not understand procedure"))], "error")

\* CallAction::error, the `_` arm of call_procedure
CallAction_error(s) == [s EXCEPT !.out = Append(@, ErrorFrame("Did not understand procedure"))]

\* StreamHandler::handle, first statement: self.last_beat = Instant::now()
updating_the_heartbeat(s, now) == [s EXCEPT !.last_beat = now]

\* the actor handles a frame or a timer only when it is not suspended in
\* `.wait()` on a worker reply
Ready == sess.open /\ sess.pending.kind = "none"

\* the frames of a result, last element first
process_message_when_callback_is_ok_rev(out, res) ==
    out \o [k \in 1..Len(res) |-> MessageFrame(res[Len(res) + 1 - k])]

\* process_message_when_callback_is_ok: one text frame per element, in order
process_message_when_callback_is_ok(out, res) ==
    out \o [k \in 1..Len(res) |-> MessageFrame(res[k])]

\* callback_when_action_is_ok: the whole result in one text frame
callback_when_action_is_ok(out, ret) == Append(out, TextFrame(ret.tag))

\* a poll whose window is the period of the timer that ends now
message_process_period(s, now_utc) ==
    LET now == now_utc - MESSAGE_LAG
    IN  [s EXCEPT !.last_message = now,
                  !.pending = [kind |-> "poll", start |-> now_utc - MESSAGE_INTERVAL,
                               end |-> now,
                               op |-> Op("getMessages", "", "", "", NoCh),
                               auth |-> s.auth_header],
                  !.next_poll = now_utc + MESSAGE_INTERVAL]

\* message_process: the window is taken and the watermark moved before the
\* call is sent
message_process(s, now_utc) ==
    LET now == now_utc - MESSAGE_LAG
        lastm == s.last_message
    IN  [s EXCEPT !.last_message = now,
                  !.pending = [kind |-> "poll", start |-> lastm, end |-> now,
                               op |-> Op("getMessages", "", "", "", NoCh),
                               auth |-> s.auth_header],
                  !.next_poll = now_utc + MESSAGE_INTERVAL]

\* an authentication that drops the stored header when the token is refused
authenticating_user_forget(s, token) ==
    IF ValidToken(token)
    THEN [s EXCEPT !.auth_header = token, !.out = Append(@, TextFrame("authenticated"))]
    ELSE [s EXCEPT !.auth_header = NONE,
                   !.out = Append(@, ErrorFrame("Could not authenticate token"))]

\* authenticating_user
authenticating_user(s, token) ==
    IF ValidToken(token)
    THEN [s EXCEPT !.auth_header = token, !.out = Append(@, TextFrame("authenticated"))]
    ELSE [s EXCEPT !.out = Append(@, ErrorFrame("Could not authenticate token"))]

\* a reply handler that sends nothing when the action failed
on_reply_silent(s, o) ==
    IF o.ret.kind = "Ok"
    THEN IF s.pending.kind = "poll"
         THEN process_message_when_callback_is_ok(s.out, o.ret.list)
         ELSE callback_when_action_is_ok(s.out, o.ret)
    ELSE s.out

\* a reply handler that puts the frames of a result before the frames sent
\* earlier
on_reply_front(s, o) ==
    IF o.ret.kind = "Ok"
    THEN IF s.pending.kind = "poll"
         THEN process_message_when_callback_is_ok(<<>>, o.ret.list) \o s.out
         ELSE <<TextFrame(o.ret.tag)>> \o s.out
    ELSE <<ErrorFrame(o.ret.tag)>> \o s.out

\* CallAction::call, the `.then` closure: what the reply puts on the socket;
\* a worker that panicked has dropped the reply, which arrives as Err(MailboxError)
on_reply(s, o) ==
    IF o.ret.kind = "Ok"
    THEN IF s.pending.kind = "poll"
         THEN process_message_when_callback_is_ok(s.out, o.ret.list)
         ELSE callback_when_action_is_ok(s.out, o.ret)
    ELSE IF o.ret.kind = "Panic"
         THEN Append(s.out, ErrorFrame("MailboxError"))
         ELSE Append(s.out, ErrorFrame(o.ret.tag))

-----------------------------------------------------------------------------
(* The state machine *)

\* stored role grants the behaviours start from
Grants1 ==
    [u \in Users |->
        IF u = "A" THEN {read_entity("Table", "t1"), get_table_data("t1")}
        ELSE {modify_entity("Table", "t1"), create_entity("Table")}]

Grants2 ==
    [u \in Users |->
        IF u = "A"
        THEN {read_entity("Table", "t1"), read_entity("Table", "t2"),
              modify_entity("Table", "t2"), create_entity("Table")}
        ELSE {}]

GrantChoices == {Grants1, Grants2}

Store1 == [T \in EntityTypes |-> [n \in Names |-> IF T = "Table" /\ n = "t2" THEN NONE ELSE "a"]]

InitStores == {EmptyStore, Store1}

EmptyDb ==
    [grants |-> [u \in Users |-> {}], store |-> EmptyStore, subs |-> {}, log |-> <<>>,
     inflight |-> <<>>]

\* the latest execution outside the session: its request, the database state
\* it started from, the time it ran, its result and its events
NoExec == [n |-> 0, caller |-> NoClaims, at |-> 0, ret |-> Err(""), trace |-> <<>>, f |-> "none",
           op |-> Op("", "", "", "", NoCh), pre |-> EmptyDb]

Executed(caller, op, f, o) ==
    [n |-> last.n + 1, caller |-> caller, at |-> clock, ret |-> o.ret, trace |-> o.trace,
     f |-> f, op |-> op, pre |-> db]

\* the channels messages are published on while the session is open
PublishChannels == {ChTable("t1"), AllTables}

\* the subscriptions the store holds when the behaviour starts
InitSubs == {{}, {<<"A", ChTable("t1")>>, <<"A", AllTables>>}}

\* the log the behaviour starts with: empty, or one message older than the
\* session (time 0 is the time the session opens)
InitLogs == {<<>>, <<Message(1, ChTable("t1"), 0 - MESSAGE_INTERVAL)>>}

Init ==
    /\ db \in [grants : GrantChoices, store : InitStores, subs : InitSubs, log : InitLogs,
                inflight : {<<>>}]
    /\ last = NoExec
    /\ sess = NewSession(0)
    /\ clock = 0
    /\ ticks = 0

\* time passes
TickSteps == {MESSAGE_INTERVAL}

Tick(dt) ==
    /\ ticks < MaxTicks
    /\ clock' = clock + dt
    /\ ticks' = ticks + 1
    /\ UNCHANGED <<db, last, sess>>

\* view/action_wrapper.rs, Handler<ActionWrapper<A>>::handle: a worker runs
\* the pipeline of a request that did not come over the session
Exec(caller, op, f) ==
    /\ last.n < MaxExecs
    /\ LET o == RunPipeline(db, caller, op, f)
       IN  /\ db' = o.db
           /\ last' = Executed(caller, op, f, o)
    /\ UNCHANGED <<sess, clock, ticks>>

\* PubSubOps::publish: a message is appended to the log
PubSubPublish(ch) ==
    /\ Len(db.log) < MaxLog
    /\ db' = publish(db, ch, clock)
    /\ UNCHANGED <<last, sess, clock, ticks>>

\* a writer's open transaction appends a message: the row is stamped with the
\* time of the insert and is not visible to other connections yet
WriterInsert(ch) ==
    /\ Len(db.log) + Len(db.inflight) < MaxLog
    /\ db' = [db EXCEPT !.inflight =
                  Append(@, Message(Len(db.log) + Len(@) + 1, ch, clock))]
    /\ UNCHANGED <<last, sess, clock, ticks>>

\* the writer's transaction commits: its rows become visible, stamps unchanged
WriterCommit ==
    /\ db.inflight # <<>>
    /\ db' = [db EXCEPT !.log = @ \o db.inflight, !.inflight = <<>>]
    /\ UNCHANGED <<last, sess, clock, ticks>>

\* StreamHandler::handle, Text frame {type: "authenticate", token}
Authenticate(token) ==
    /\ Ready
    /\ sess.inbound < MaxInbound
    /\ sess' = [authenticating_user(updating_the_heartbeat(sess, clock), token)
                    EXCEPT !.inbound = @ + 1]
    /\ UNCHANGED <<db, last, clock, ticks>>

\* StreamHandler::handle, Text frame {type: "call", procedure, params, data}
CallProcedure(op) ==
    /\ Ready
    /\ sess.inbound < MaxInbound
    /\ sess' = [updating_the_heartbeat(sess, clock)
                    EXCEPT !.inbound = @ + 1,
                           !.pending = [kind |-> "call", start |-> 0, end |-> 0, op |-> op,
                                        auth |-> sess.auth_header]]
    /\ UNCHANGED <<db, last, clock, ticks>>

\* the payloads a ping or a pong of the client carries
Payloads == {HEARTBEAT_MESSAGE, "other"}

\* StreamHandler::handle, Pong frame
InboundPong(message) ==
    /\ Ready
    /\ sess' = handle_pong(updating_the_heartbeat(sess, clock), message)
    /\ UNCHANGED <<db, last, clock, ticks>>

\* StreamHandler::handle, Ping frame
InboundPing(x) ==
    /\ Ready
    /\ sess.inbound < MaxInbound
    /\ sess' = [handle_ping(updating_the_heartbeat(sess, clock), x) EXCEPT !.inbound = @ + 1]
    /\ UNCHANGED <<db, last, clock, ticks>>

\* StreamHandler::handle, Binary frame
InboundBinary ==
    /\ Ready
    /\ sess.inbound < MaxInbound
    /\ sess' = [handle_binary(updating_the_heartbeat(sess, clock)) EXCEPT !.inbound = @ + 1]
    /\ UNCHANGED <<db, last, clock, ticks>>

\* StreamHandler::handle, Close frame
InboundClose ==
    /\ Ready
    /\ sess' = handle_close(updating_the_heartbeat(sess, clock))
    /\ UNCHANGED <<db, last, clock, ticks>>

\* StreamHandler::handle, Text frame that serde_json does not read as WsInputData
InboundText ==
    /\ Ready
    /\ sess.inbound < MaxInbound
    /\ sess' = [handle_text_unparsed(updating_the_heartbeat(sess, clock)) EXCEPT !.inbound = @ + 1]
    /\ UNCHANGED <<db, last, clock, ticks>>

\* StreamHandler::handle, Text frame {type: "call"} whose procedure is none of
\* the names call_procedure matches
CallUnknown(procedure) ==
    /\ procedure \notin Procedures
    /\ Ready
    /\ sess.inbound < MaxInbound
    /\ sess' = [CallAction_error(updating_the_heartbeat(sess, clock)) EXCEPT !.inbound = @ + 1]
    /\ UNCHANGED <<db, last, clock, ticks>>

\* the heartbeat timer fires: heartbeat_process
HeartbeatProcess ==
    /\ Ready
    /\ clock >= sess.next_beat
    /\ sess' = heartbeat_process(sess, clock)
    /\ UNCHANGED <<db, last, clock, ticks>>

\* time passes in the heartbeat's scale: a timer that is due runs before
\* time moves on, and the client acts on the second of a ping, one or two
\* seconds after it, or not at all
BeatTick(dt) ==
    /\ clock + dt <= MaxBeatSeconds * Second
    /\ sess.open => clock + dt <= sess.next_beat
    /\ \/ dt = Second /\ clock % HEARTBEAT_INTERVAL \in {0, Second}
       \/ dt = HEARTBEAT_INTERVAL - (clock % HEARTBEAT_INTERVAL)
    /\ clock' = clock + dt
    /\ UNCHANGED <<db, last, sess, ticks>>

\* the delivery timer fires: message_process
MessageProcess ==
    /\ Ready
    /\ clock >= sess.next_poll
    /\ sess' = message_process(sess, clock)
    /\ UNCHANGED <<db, last, clock, ticks>>

\* the worker runs the action the session sent and the reply reaches the
\* session; a panic of the worker drops the reply channel, which the session
\* sees as a mailbox error
WorkerReply(f) ==
    /\ sess.open
    /\ sess.pending.kind # "none"
    /\ LET caller == ClaimsOf(sess.pending.auth)
       IN  \E lst \in Answers(db, caller, sess.pending.start, sess.pending.end) :
             LET o == IF sess.pending.kind = "poll"
                      THEN GetMessages_new(db, caller, lst, f)
                      ELSE RunPipeline(db, caller, sess.pending.op, f)
             IN  /\ db' = o.db
                 /\ sess' = [sess EXCEPT !.out = on_reply(sess, o),
                                         !.pending = NoPending]
    /\ UNCHANGED <<last, clock, ticks>>

\* the send fails (MailboxError): the action never runs
WorkerLost ==
    /\ sess.open
    /\ sess.pending.kind # "none"
    /\ sess' = [sess EXCEPT !.out = Append(@, ErrorFrame("MailboxError")),
                            !.pending = NoPending]
    /\ UNCHANGED <<db, last, clock, ticks>>

\* Handler<ActionWrapper<A>>::handle: the parameters of the call did not
\* deserialize, msg.action is Err and the worker answers
\* Error::SerializationError without running anything
WorkerRejects ==
    /\ sess.open
    /\ sess.pending.kind = "call"
    /\ sess' = [sess EXCEPT !.out = Append(@, ErrorFrame("SerializationError")),
                            !.pending = NoPending]
    /\ UNCHANGED <<db, last, clock, ticks>>

\* the procedures the modelled client calls over the session
SessionOps ==
    {Op("subscribeTo", "", "", "", ChTable("t1")),
     Op("unsubscribeFrom", "", "", "", ChTable("t1"))}

\* the writes another client makes while the session is open
WriterOps ==
    {Op("update", "Table", "t1", "b", NoCh),
     Op("create", "Table", "t2", "a", NoCh)}

Writer == [sub |-> "B", is_admin |-> FALSE, logged_in |-> TRUE]

\* a client has connected: WsClientSession::new, Actor::started
InitSession ==
    /\ db \in [grants : {Grants1}, store : {Store1}, subs : InitSubs, log : InitLogs,
                inflight : {<<>>}]
    /\ last = NoExec
    /\ sess = NewSession(0)
    /\ clock = 0
    /\ ticks = 0

\* the session, the message log and a writer
Next ==
    \/ \E dt \in TickSteps : Tick(dt)
    \/ \E op \in WriterOps : Exec(Writer, op, "none")
    \/ \E ch \in PublishChannels : PubSubPublish(ch)
    \/ \E token \in Tokens : Authenticate(token)
    \/ \E op \in SessionOps : CallProcedure(op)
    \/ MessageProcess
    \/ \E f \in Faults : WorkerReply(f)
    \/ WorkerLost

Spec == InitSession /\ [][Next]_vars

\* the delivery loop alone: the client authenticates and calls no procedure,
\* so the only requests that reach the worker are the polls of the session
NextDelivery ==
    \/ \E dt \in TickSteps : Tick(dt)
    \/ \E ch \in PublishChannels : PubSubPublish(ch)
    \/ \E token \in Tokens : Authenticate(token)
    \/ MessageProcess
    \/ \E f \in Faults : WorkerReply(f)
    \/ WorkerLost

SpecDelivery == InitSession /\ [][NextDelivery]_vars

\* the delivery loop of a client that authenticated as user A on connecting
InitDelivering ==
    /\ db \in [grants : {Grants1}, store : {Store1}, subs : InitSubs, log : InitLogs,
                inflight : {<<>>}]
    /\ last = NoExec
    /\ sess = [authenticating_user(NewSession(0), "tokA") EXCEPT !.inbound = 1]
    /\ clock = 0
    /\ ticks = 0

NextPolls ==
    \/ \E dt \in TickSteps : Tick(dt)
    \/ \E ch \in PublishChannels : PubSubPublish(ch)
    \/ MessageProcess
    \/ \E f \in Faults : WorkerReply(f)
    \/ WorkerLost

SpecPolls == InitDelivering /\ [][NextPolls]_vars

\* the connection of the first session ends and the same client connects
\* again: a session is built by WsClientSession::new at the present time and
\* authenticates with the same token; what the worker still holds for the
\* old session is answered to nobody
Reconnect ==
    /\ sess.opened_at = 0
    /\ clock > 0
    /\ sess' = [authenticating_user(NewSession(clock), "tokA") EXCEPT !.inbound = 1]
    /\ UNCHANGED <<db, last, clock, ticks>>

\* the delivery loop of a client that may authenticate late or not at all,
\* while one channel is published on
NextAnonymous ==
    \/ \E dt \in TickSteps : Tick(dt)
    \/ PubSubPublish(ChTable("t1"))
    \/ \E token \in Tokens : Authenticate(token)
    \/ MessageProcess
    \/ \E f \in Faults : WorkerReply(f)
    \/ WorkerLost

SpecAnonymous == InitSession /\ [][NextAnonymous]_vars

\* the delivery loop of a client that reconnects once
NextReconnect ==
    \/ \E dt \in TickSteps : Tick(dt)
    \/ \E ch \in PublishChannels : PubSubPublish(ch)
    \/ MessageProcess
    \/ WorkerReply("none")
    \/ Reconnect

SpecReconnect == InitDelivering /\ [][NextReconnect]_vars

\* the delivery loop next to a writer whose transaction is open while the
\* session polls
NextConcurrent ==
    \/ \E dt \in TickSteps : Tick(dt)
    \/ \E ch \in PublishChannels : WriterInsert(ch)
    \/ WriterCommit
    \/ \E token \in Tokens : Authenticate(token)
    \/ MessageProcess
    \/ \E f \in Faults : WorkerReply(f)
    \/ WorkerLost

SpecConcurrent == InitSession /\ [][NextConcurrent]_vars

\* the leaf actions of the entity store with every value of their policy
LeafOps ==
    {WithPolicy(Op("create", T, n, x, NoCh), p) :
        T \in EntityTypes, n \in Names, x \in Data, p \in OnDuplicates}
    \cup {WithPolicy(Op("update", T, n, x, NoCh), p) :
        T \in EntityTypes, n \in Names, x \in Data, p \in OnNotFounds}
    \cup {WithPolicy(Op("delete", T, n, "", NoCh), p) :
        T \in EntityTypes, n \in Names, p \in OnNotFounds}

\* Action::call of a leaf
LeafCall(d, op, f) ==
    CASE op.proc = "create" -> CreateEntity_call(d, op.T, op.name, op.data, op.policy, f)
      [] op.proc = "update" -> UpdateEntity_call(d, op.T, op.name, op.data, op.policy, f)
      [] op.proc = "delete" -> DeleteEntity_call(d, op.T, op.name, op.policy, f)

\* a leaf is called on the state, outside any decorator
ExecLeaf(op, f) ==
    /\ last.n < MaxLeafCalls
    /\ LET o == LeafCall(db, op, f)
       IN  /\ db' = o.db
           /\ last' = Executed(Writer, op, f, o)
    /\ UNCHANGED <<sess, clock, ticks>>

InitLeaf ==
    /\ db \in [grants : {Grants1}, store : InitStores, subs : {{}}, log : {<<>>},
                inflight : {<<>>}]
    /\ last = NoExec
    /\ sess = NewSession(0)
    /\ clock = 0
    /\ ticks = 0

NextLeaf == \E op \in LeafOps, f \in Faults : ExecLeaf(op, f)

SpecLeaf == InitLeaf /\ [][NextLeaf]_vars

\* create requests together with the on_duplicate the requester means; the
\* router hands CreateEntity::new the payload only
CreateRequests ==
    {WithPolicy(Op("create", T, n, x, NoCh), p) :
        T \in EntityTypes, n \in Names, x \in Data, p \in OnDuplicates}

\* stored grants where one user may modify t1 and the other may create
Grants3 ==
    [u \in Users |->
        IF u = "A" THEN {modify_entity("Table", "t1")} ELSE {create_entity("Table")}]

InitCreate ==
    /\ db \in [grants : {Grants1, Grants3}, store : InitStores, subs : {{}}, log : {<<>>},
                inflight : {<<>>}]
    /\ last = NoExec
    /\ sess = NewSession(0)
    /\ clock = 0
    /\ ticks = 0

NextCreate ==
    \E caller \in Callers, op \in CreateRequests, f \in Faults : Exec(caller, op, f)

SpecCreate == InitCreate /\ [][NextCreate]_vars

\* a worker runs the pipeline of a subscription request; several in a row
ExecPubSub(caller, op, f) ==
    /\ last.n < MaxSubCalls
    /\ LET o == RunPipeline(db, caller, op, f)
       IN  /\ db' = o.db
           /\ last' = Executed(caller, op, f, o)
    /\ UNCHANGED <<sess, clock, ticks>>

\* the subscriptions a behaviour of subscription requests starts from
InitSubsBoth == {{}, {<<"A", ChTable("t1")>>, <<"B", ChTable("t1")>>}}

InitPubSub ==
    /\ db \in [grants : GrantChoices, store : {Store1}, subs : InitSubsBoth, log : {<<>>},
                inflight : {<<>>}]
    /\ last = NoExec
    /\ sess = NewSession(0)
    /\ clock = 0
    /\ ticks = 0

NextPubSub ==
    \E caller \in Callers, op \in PubSubOpsSet, f \in Faults : ExecPubSub(caller, op, f)

SpecPubSub == InitPubSub /\ [][NextPubSub]_vars

\* the channels of every entity family a subscribeTo can name
ChScript(name) == <<"Script", name>>

FamilyChannels ==
    SubChannels \cup {ChQuery(n) : n \in Names} \cup {ChScript(n) : n \in Names}

\* subscribeTo requests over the channels of every family
NextChannels ==
    \E caller \in Callers, ch \in FamilyChannels, f \in Faults :
        ExecPubSub(caller, Op("subscribeTo", "", "", "", ch), f)

SpecChannels == InitPubSub /\ [][NextChannels]_vars

\* the windows a getMessages request names
WindowTimes == {0, 10, 20, 30}

\* logs whose entries are not in the order of their stamps, as transactions
\* that commit in another order than they inserted leave them
MessageLogs ==
    {<<Message(1, ChTable("t1"), 20), Message(2, ChTable("t1"), 0), Message(3, ChTable("t2"), 10)>>,
     <<Message(1, ChTable("t2"), 0), Message(2, ChTable("t1"), 10)>>}

InitMessages ==
    /\ db \in [grants : {Grants1}, store : {Store1}, subs : InitSubsBoth, log : MessageLogs,
                inflight : {<<>>}]
    /\ last = NoExec
    /\ sess = NewSession(0)
    /\ clock = 0
    /\ ticks = 0

\* a worker runs the pipeline of a getMessages request
ExecGetMessages(caller, start, end, f) ==
    /\ last.n < MaxSubCalls
    /\ \E lst \in Answers(db, caller, start, end) :
          LET o == GetMessages_new(db, caller, lst, f)
          IN  /\ db' = o.db
              /\ last' = Executed(caller, WithWindow(Op("getMessages", "", "", "", NoCh), start, end), f, o)
    /\ UNCHANGED <<sess, clock, ticks>>

NextMessages ==
    \E caller \in Callers, start \in WindowTimes, end \in WindowTimes, f \in Faults :
        ExecGetMessages(caller, start, end, f)

SpecMessages == InitMessages /\ [][NextMessages]_vars

\* the heartbeat of a session whose client sends pongs and nothing else
NextHeartbeat ==
    \/ \E dt \in {Second, HEARTBEAT_INTERVAL - Second, HEARTBEAT_INTERVAL - 2 * Second,
                   HEARTBEAT_INTERVAL} : BeatTick(dt)
    \/ HeartbeatProcess
    \/ \E message \in Payloads : InboundPong(message)

SpecHeartbeat == InitSession /\ [][NextHeartbeat]_vars

\* the frames of a client and the calls they start, without the delivery loop
NextFrames ==
    \/ \E dt \in TickSteps : Tick(dt)
    \/ \E token \in Tokens : Authenticate(token)
    \/ \E op \in SessionOps : CallProcedure(op)
    \/ \E procedure \in ProcedureNames : CallUnknown(procedure)
    \/ InboundText
    \/ InboundBinary
    \/ \E x \in Payloads : InboundPing(x)
    \/ \E message \in Payloads : InboundPong(message)
    \/ InboundClose
    \/ \E f \in Faults : WorkerReply(f)
    \/ WorkerRejects
    \/ WorkerLost

SpecFrames == InitSession /\ [][NextFrames]_vars

\* the future of a call that was sent resolves: the worker replies or the
\* send fails
Resolve ==
    \/ \E f \in Faults : WorkerReply(f)
    \/ WorkerRejects
    \/ WorkerLost

SpecFramesFair == SpecFrames /\ WF_vars(Resolve)

\* the client has connected and authenticated as user A in the same instant;
\* nobody is subscribed and nothing was published yet
InitAuthenticated ==
    /\ db = [grants |-> Grants1, store |-> Store1, subs |-> {}, log |-> <<>>, inflight |-> <<>>]
    /\ last = NoExec
    /\ sess = [authenticating_user(NewSession(0), "tokA") EXCEPT !.inbound = 1]
    /\ clock = 0
    /\ ticks = 0

\* calls of the authenticated client next to the delivery loop
NextInterleave ==
    \/ \E dt \in TickSteps : Tick(dt)
    \/ PubSubPublish(ChTable("t1"))
    \/ \E op \in SessionOps : CallProcedure(op)
    \/ MessageProcess
    \/ \E f \in Faults : WorkerReply(f)
    \/ WorkerRejects
    \/ WorkerLost

SpecInterleave == InitAuthenticated /\ [][NextInterleave]_vars

\* every pipeline, run by every caller on the worker
NextPipeline ==
    \E caller \in Callers, op \in Ops, f \in Faults : Exec(caller, op, f)

SpecPipeline == Init /\ [][NextPipeline]_vars

-----------------------------------------------------------------------------
(* model/actions/query_actions.rs: RunQuery *)

run_query(name) == <<"RunQuery", "", name>>

\* RunQuery::call: get_one, then QC::run_query on the query found
RunQuery_call(d, name, f) ==
    IF ER_get_one(d.store, "Query", name) = NONE THEN Outcome(Err("NotFound"), d, <<"leaf">>)
    ELSE IF f = "db" THEN Outcome(Err("Query"), d, <<"leaf">>)
    ELSE Outcome(Ok("RunQuery", name, "", ""), d, <<"leaf">>)

\* RunQuery::new
RunQuery_new(d, caller, name, f) ==
    WithPermissionRequired(d, caller, run_query(name),
                           WithTransaction(d, RunQuery_call(d, name, f)))

\* a worker runs the pipeline of a runQuery request
ExecRunQuery(caller, name, f) ==
    /\ last.n < MaxExecs
    /\ LET o == RunQuery_new(db, caller, name, f)
       IN  /\ db' = o.db
           /\ last' = Executed(caller, Op("runQuery", "Query", name, "", NoCh), f, o)
    /\ UNCHANGED <<sess, clock, ticks>>

\* one execution of any procedure's pipeline
ExecPolled(caller, start, end, f) ==
    /\ last.n < MaxExecs
    /\ ExecGetMessages(caller, start, end, f)

NextComposed ==
    \/ \E caller \in Callers, op \in Ops, f \in Faults : Exec(caller, op, f)
    \/ \E caller \in Callers, name \in Names, f \in Faults : ExecRunQuery(caller, name, f)
    \/ \E caller \in Callers, f \in Faults : ExecPolled(caller, 0, MESSAGE_INTERVAL, f)

SpecComposed == Init /\ [][NextComposed]_vars

-----------------------------------------------------------------------------
(* Properties of one pipeline execution, stated on `last` and `db` *)

ExecDone == last.n > 0

InTrace(e) == \E i \in 1..Len(last.trace) : last.trace[i] = e

\* the leaf an operation's constructor wraps, run on d
LeafOf(d, caller, op, f) ==
    CASE op.proc = "create" -> CreateEntity_call(d, op.T, op.name, op.data, "Ignore", f)
      [] op.proc = "update" -> UpdateEntity_call(d, op.T, op.name, op.data, "Ignore", f)
      [] op.proc = "delete" -> DeleteEntity_call(d, op.T, op.name, "Ignore", f)
      [] op.proc = "get" -> GetEntity_call(d, op.T, op.name, f)
      [] op.proc = "getAll" -> GetAllEntities_call(d, op.T, f)
      [] op.proc = "subscribeTo" -> SubscribeTo_call(d, caller, op.ch, f)
      [] op.proc = "unsubscribeFrom" -> UnsubscribeFrom_call(d, caller, op.ch, f)
      [] op.proc = "getSubscribers" -> GetSubscribers_call(d, op.ch, f)
      [] op.proc = "unsubscribeAll" -> UnsubscribeAll_call(d, caller, f)

\* the channel list an operation's constructor hands to WithDispatch
ChannelsOf(op) ==
    IF op.proc = "create" THEN {all_entities(op.T)}
    ELSE {all_entities(op.T), entity(op.T, op.name)}

\* the caller does not meet what the guard of the operation asks for
Lacking(d, caller, op) ==
    CASE op.proc = "get" -> read_entity(op.T, op.name) \notin get_permissions(d, caller)
      [] op.proc \in {"update", "delete"} ->
            modify_entity(op.T, op.name) \notin get_permissions(d, caller)
      [] op.proc = "create" -> create_entity(op.T) \notin get_permissions(d, caller)
      [] op.proc \in {"subscribeTo", "getSubscribers"} ->
            required_permission(op.ch) \notin get_permissions(d, caller)
      [] op.proc \in {"unsubscribeFrom", "unsubscribeAll"} -> ~caller.logged_in
      [] OTHER -> FALSE

EarliestTime == 0 - MESSAGE_INTERVAL

\* the messages a GetMessages call of user u over the whole log can return
Visible(d, u) == {d.log[i] : i \in Matching(d, u, EarliestTime, clock + 1)}

\* C3: an execution whose transaction is rolled back leaves no message behind:
\* the log is the log it started from, and what each user can read with
\* GetMessages is what that user could read before
C3_AbortLeavesNoMessage ==
    (ExecDone /\ InTrace("rollback")) =>
        /\ db.log = last.pre.log
        /\ \A u \in Users : Visible(db, u) = Visible(last.pre, u)

\* a write whose leaf failed after writing, with a subscriber that has a
\* message to read
C3_Witness ==
    /\ ExecDone
    /\ InTrace("rollback")
    /\ last.op.proc \in WriteProcs
    /\ last.ret.kind = "Err"
    /\ LeafOf(last.pre, last.caller, last.op, last.f).db # last.pre
    /\ Visible(db, "A") # {}

\* C4: a Create/Update/Delete pipeline changes the entity store and the
\* message log together or not at all
C4_StoreAndLogTogether ==
    (ExecDone /\ last.op.proc \in WriteProcs) =>
        ((db.store # last.pre.store) <=> (db.log # last.pre.log))

C6_AdminPassesEveryCheck ==
    (ExecDone /\ is_admin(last.caller)) =>
        /\ last.ret # Err("Unauthorized")
        /\ (last.op.proc = "getAll" /\ last.ret.kind = "Ok") =>
                last.ret.list = ER_get_all(last.pre.store, last.op.T)

\* C7: a transaction commits exactly when its inner succeeds, and then the
\* inner's writes are in the database; when the inner returns an Error the
\* transaction is rolled back, the database is as before the call and the
\* caller gets that Error
C7_CommitIffSuccess ==
    (ExecDone /\ InTrace("begin")) =>
        LET inner == LeafOf(last.pre, last.caller, last.op, last.f)
        IN  /\ InTrace("commit") <=> inner.ret.kind = "Ok"
            /\ inner.ret.kind = "Ok" => db = inner.db
            /\ inner.ret.kind = "Err" =>
                    /\ InTrace("rollback")
                    /\ db = last.pre
                    /\ last.ret = inner.ret

\* createTable of a schema without columns: the row is written, the physical
\* step fails, the transaction rolls the row back
C7_Witness ==
    /\ ExecDone
    /\ last.op = Op("create", "Table", "t2", "empty", NoCh)
    /\ last.ret = Err("Entity(NoColumns)")
    /\ InTrace("rollback")
    /\ LeafOf(last.pre, last.caller, last.op, last.f).db.store["Table"]["t2"] = "empty"
    /\ db.store["Table"]["t2"] = NONE

\* C8: when the transaction of a write commits, the pipeline returns the
\* inner's result and the log holds a new message on every channel of the
\* channel list
C8_DispatchPublishes ==
    (ExecDone /\ last.op.proc \in WriteProcs /\ InTrace("commit")) =>
        /\ last.ret = LeafOf(last.pre, last.caller, last.op, last.f).ret
        /\ \A ch \in ChannelsOf(last.op) :
              \E i \in (Len(last.pre.log) + 1)..Len(db.log) : db.log[i].channel = ch

-----------------------------------------------------------------------------
(* Properties of the session's delivery loop *)

\* the user the session is authenticated as
SessionUser == IF sess.auth_header = NONE THEN NONE ELSE Decode(sess.auth_header).sub

\* the positions of the frames of `out` that carry message m
FramesOf(out, m) == {k \in 1..Len(out) : out[k] = MessageFrame(m)}

\* no call of the session has changed a subscription
SubsStable == \A k \in 1..Len(sess.out) : sess.out[k].text \notin {"Subscribed", "Unsubscribed"}

\* no frame of the session reports an error
NoErrorFrames == \A k \in 1..Len(sess.out) : sess.out[k].kind # "error"

\* m is on a channel the session's user is subscribed to and lies between the
\* opening of the session and the watermark
Due(m) ==
    /\ sess.opened_at <= m.created_at
    /\ m.created_at < sess.last_message
    /\ <<SessionUser, m.channel>> \in db.subs

C1_Step ==
    (sess.pending.kind = "poll" /\ sess.pending.auth # NONE /\ sess'.pending.kind = "none") =>
        \A i \in 1..Len(db.log) :
            (/\ sess.pending.start <= db.log[i].created_at
             /\ db.log[i].created_at < sess.pending.end
             /\ <<Decode(sess.pending.auth).sub, db.log[i].channel>> \in db.subs)
            => Cardinality({k \in (Len(sess.out) + 1)..Len(sess'.out) :
                                sess'.out[k] = MessageFrame(db.log[i])}) = 1

\* C1: when the poll of an authenticated session ends, every message of a
\* channel its user is subscribed to whose created_at lies in the poll's
\* window [last_delivery, now - MESSAGE_LAG) has got exactly one frame from
\* that poll
C1_ExactlyOneFrame == [][C1_Step]_vars

\* C2: with no poll outstanding, every message on a channel the session's
\* user is subscribed to, stamped between the opening of the session and the
\* watermark, has been emitted on the session
C2_NoWindowLost ==
    (sess.pending.kind = "none" /\ SessionUser # NONE /\ SubsStable) =>
        \A i \in 1..Len(db.log) : Due(db.log[i]) => FramesOf(sess.out, db.log[i]) # {}

\* C9: once a write has committed, a subscriber of one of its channels whose
\* authenticated session has polled without error past the time of the write
\* has a frame of that channel stamped at or after the write
C9_CommittedWriteDelivered ==
    (/\ ExecDone
     /\ last.op.proc \in WriteProcs
     /\ InTrace("commit")
     /\ SessionUser = "A"
     /\ sess.pending.kind = "none"
     /\ NoErrorFrames
     /\ SubsStable
     /\ \E ch \in ChannelsOf(last.op) : <<"A", ch>> \in db.subs
     /\ sess.last_message > last.at)
    => \E k \in 1..Len(sess.out) :
          /\ sess.out[k].kind = "message"
          /\ sess.out[k].ch \in ChannelsOf(last.op)
          /\ sess.out[k].at >= last.at

\* C10: the message frames of one channel appear on the session in created_at
\* ascending order, within one poll and across polls
C10_ChannelOrder ==
    \A j, k \in 1..Len(sess.out) :
        (/\ j < k
         /\ sess.out[j].kind = "message"
         /\ sess.out[k].kind = "message"
         /\ sess.out[j].ch = sess.out[k].ch)
        => sess.out[j].at <= sess.out[k].at

\* two messages of one channel with different stamps have both been delivered
C10_Witness ==
    \E j, k \in 1..Len(sess.out) :
        /\ j < k
        /\ sess.out[j].kind = "message"
        /\ sess.out[k].kind = "message"
        /\ sess.out[j].ch = sess.out[k].ch
        /\ sess.out[j].at < sess.out[k].at

-----------------------------------------------------------------------------
(* Properties of the delivery loop next to a concurrent writer *)

\* C11: the watermark of the session never lies beyond the stamp of a message
\* that is not visible to GetMessages yet, so no poll has passed a message
\* before it could read it
C11_NeverRacedPast ==
    \A i \in 1..Len(db.inflight) : sess.last_message <= db.inflight[i].created_at

-----------------------------------------------------------------------------
(* Properties of the results of the pipelines *)

\* the guard of the operation turns the caller of the latest execution away
Refused == ~is_admin(last.caller) /\ Lacking(last.pre, last.caller, last.op)

\* the outcome of the leaf of the latest execution, run on the state the
\* execution started from
LastLeaf == LeafOf(last.pre, last.caller, last.op, last.f)

\* C12: the error a pipeline returns is the error of its first failing stage,
\* unchanged: Unauthorized when the guard refuses, else the leaf's error when
\* the leaf fails; and a pipeline returns no error that neither raised
C12_ErrorsPropagate ==
    ExecDone =>
        /\ Refused => last.ret = Err("Unauthorized")
        /\ (~Refused /\ LastLeaf.ret.kind = "Err") => last.ret = LastLeaf.ret
        /\ last.ret.kind = "Err" => (Refused \/ last.ret = LastLeaf.ret)

\* a list query whose leaf fails: the error crosses the transaction and the
\* filter
C12_Witness ==
    /\ ExecDone
    /\ last.op.proc = "getAll"
    /\ LastLeaf.ret = Err("Entity(InternalError)")
    /\ last.ret = Err("Entity(InternalError)")
    /\ InTrace("rollback")

-----------------------------------------------------------------------------
(* Properties of the leaf actions of the entity store *)

\* the value the store held under the name of the latest call, before it
Stored == last.pre.store[last.op.T][last.op.name]

\* C13: a create with the policy Fail on a name the store holds leaves the
\* store unchanged, and the caller gets the error AlreadyExists when the
\* storage backend answers
C13_FailOnDuplicate ==
    (ExecDone /\ last.op.proc = "create" /\ last.op.policy = "Fail" /\ Stored # NONE) =>
        /\ db.store = last.pre.store
        /\ last.f = "none" => last.ret = Err("AlreadyExists")

\* such a create, asking for a value other than the stored one
C13_Witness ==
    /\ ExecDone
    /\ last.op.proc = "create"
    /\ last.op.policy = "Fail"
    /\ Stored = "a"
    /\ last.op.data = "b"
    /\ last.ret = Err("AlreadyExists")
    /\ db.store[last.op.T][last.op.name] = "a"

\* the latest call was a create with the policy Ignore of a valid payload
\* under a name the store did not hold, answered by the storage backend
FirstCreate ==
    /\ ExecDone
    /\ last.op.proc = "create"
    /\ last.op.policy = "Ignore"
    /\ Stored = NONE
    /\ physical_create(last.op.T, last.op.data) = "Ok"
    /\ last.f = "none"

C14_Step ==
    (FirstCreate /\ last'.n = last.n + 1 /\ last'.op = last.op /\ last'.f = "none") =>
        /\ last.ret = Ok("Created", last.op.name, "", last.op.data)
        /\ last'.ret = Ok("AlreadyExists", last.op.name, last.ret.new, last.op.data)
        /\ db'.store = db.store

\* C14: of two consecutive creates with the policy Ignore and the same
\* payload the first returns Created(new), and the second returns
\* AlreadyExists{existing, requested} with existing the first's new and leaves
\* the store as the first left it
C14_IgnoreTwice == [][C14_Step]_vars

\* the second call has answered AlreadyExists with the value the first call
\* stored under a name no initial store holds
C14_Witness ==
    /\ last.n = 2
    /\ last.op.proc = "create"
    /\ last.op.T = "Table"
    /\ last.op.name = "t2"
    /\ last.op.policy = "Ignore"
    /\ last.f = "none"
    /\ Stored = last.op.data
    /\ last.ret = Ok("AlreadyExists", last.op.name, last.op.data, last.op.data)
    /\ db.store = last.pre.store

-----------------------------------------------------------------------------
\* C15: CreateEntity<T> authorizes a non-admin caller by the on_duplicate of
\* the request: with Ignore or Fail the caller is let through exactly when it
\* holds Create(T); with Update a caller holding Modify(T, name) is let
\* through even without Create(T); a caller holding neither gets Unauthorized.
C15_CreateAuthorization ==
    (ExecDone /\ last.op.proc = "create" /\ ~is_admin(last.caller)) =>
        LET held == get_permissions(last.pre, last.caller)
            c == create_entity(last.op.T) \in held
            m == modify_entity(last.op.T, last.op.name) \in held
        IN  /\ last.op.policy \in {"Ignore", "Fail"} => (last.ret = Err("Unauthorized") <=> ~c)
            /\ (last.op.policy = "Update" /\ m) => last.ret # Err("Unauthorized")
            /\ (~c /\ ~m) => last.ret = Err("Unauthorized")

-----------------------------------------------------------------------------
\* C16: UpdateEntity<T>(name, data) and DeleteEntity<T>(name) on a name the
\* store does not hold leave the store unchanged and, when the storage does
\* not fail, return NotFound{id, requested} as a success with on_not_found =
\* Ignore and the error NotFound with on_not_found = Fail; on a name the store
\* holds they return Updated{id, old, new} / Deleted{id, old} with the value
\* stored before.
C16_NotFoundPolicies ==
    (ExecDone /\ last.op.proc \in {"update", "delete"}) =>
        IF Stored = NONE
        THEN /\ db.store = last.pre.store
             /\ (last.f = "none" /\ last.op.policy = "Ignore") =>
                    last.ret = Ok("NotFound", last.op.name, "", last.op.data)
             /\ (last.f = "none" /\ last.op.policy = "Fail") => last.ret = Err("NotFound")
        ELSE last.f = "none" =>
                IF last.op.proc = "update"
                THEN last.ret = Ok("Updated", last.op.name, Stored, last.op.data)
                ELSE last.ret = Ok("Deleted", last.op.name, Stored, "")

-----------------------------------------------------------------------------
\* the permissions the caller of the latest execution held when it started
Held == get_permissions(last.pre, last.caller)

-----------------------------------------------------------------------------
\* the names, in store order, whose GetEntity<T>(name) pipeline succeeds for
\* the caller of the latest execution on the state it started from
EachGetOne ==
    SelectSeq(NameOrder,
              LAMBDA n : GetEntity_new(last.pre, last.caller, last.op.T, n, "none").ret.kind = "Ok")

\* C18: permission filtering commutes with retrieval: for every caller and
\* every store state the list the GetAllEntities<T> pipeline returns is the
\* list of the entities for which the GetEntity<T>(name) pipeline succeeds
\* for the same caller.
C18_FilterCommutes ==
    (ExecDone /\ last.op.proc = "getAll" /\ last.f = "none") =>
        /\ last.ret.kind = "Ok"
        /\ last.ret.list = EachGetOne

-----------------------------------------------------------------------------
SubscriptionProcs == {"subscribeTo", "unsubscribeFrom", "unsubscribeAll"}

\* the pairs of the subscription store that belong to other users than u
OthersSubs(subs, u) == {x \in subs : x[1] # u}

\* C19: SubscribeTo(c), UnsubscribeFrom(c) and UnsubscribeAll() are
\* idempotent: when a call that succeeded is followed by the same call of the
\* same caller, the second returns what the first returned and leaves the
\* subscription store as the first left it, after SubscribeTo with the pair
\* (user, c) in it; and no call of the three changes the subscriptions of
\* another user.
C19_Step ==
    /\ (/\ last.n >= 1
        /\ last.ret.kind = "Ok"
        /\ last.op.proc \in SubscriptionProcs
        /\ last'.n = last.n + 1
        /\ last'.op = last.op
        /\ last'.caller = last.caller
        /\ last'.f = "none") =>
            /\ last'.ret = last.ret
            /\ db'.subs = db.subs
            /\ last.op.proc = "subscribeTo" => <<user_id(last.caller), last.op.ch>> \in db'.subs
    /\ (last'.n = last.n + 1 /\ last'.op.proc \in SubscriptionProcs) =>
            OthersSubs(db'.subs, user_id(last'.caller)) = OthersSubs(db.subs, user_id(last'.caller))

C19_Idempotent == [][C19_Step]_vars

\* a non-admin user has subscribed twice in a row to a channel it was not
\* subscribed to, while another user holds subscriptions
C19_Witness ==
    /\ last.n = 2
    /\ last.op.proc = "subscribeTo"
    /\ last.ret.kind = "Ok"
    /\ ~is_admin(last.caller)
    /\ <<user_id(last.caller), last.op.ch>> \in last.pre.subs
    /\ <<user_id(last.caller), last.op.ch>> \notin UNION InitSubsBoth
    /\ OthersSubs(db.subs, user_id(last.caller)) # {}

-----------------------------------------------------------------------------
\* C20: for a caller who is not admin, SubscribeTo(c) and GetSubscribers(c)
\* succeed only if the caller holds c.required_permission(); without it they
\* return Unauthorized and the subscription store is unchanged.
\* UnsubscribeFrom(c) and UnsubscribeAll() ask for a login only: they refuse a
\* caller without claims and, when the storage does not fail, succeed for
\* every logged-in caller whatever it holds.
C20_SubscriptionGuards ==
    (last.n >= 1 /\ ~is_admin(last.caller)) =>
        /\ last.op.proc \in {"subscribeTo", "getSubscribers"} =>
                /\ last.ret.kind = "Ok" => required_permission(last.op.ch) \in Held
                /\ required_permission(last.op.ch) \notin Held =>
                        (last.ret = Err("Unauthorized") /\ db.subs = last.pre.subs)
        /\ last.op.proc \in {"unsubscribeFrom", "unsubscribeAll"} =>
                /\ ~last.caller.logged_in => last.ret = Err("Unauthorized")
                /\ (last.caller.logged_in /\ last.f = "none") => last.ret.kind = "Ok"

\* a logged-in user who does not hold the permission of a channel it is
\* subscribed to has unsubscribed from it
C20_Witness ==
    /\ last.n >= 1
    /\ last.caller.logged_in
    /\ ~is_admin(last.caller)
    /\ last.op.proc = "unsubscribeFrom"
    /\ required_permission(last.op.ch) \notin Held
    /\ last.ret.kind = "Ok"
    /\ <<user_id(last.caller), last.op.ch>> \in last.pre.subs
    /\ <<user_id(last.caller), last.op.ch>> \notin db.subs

-----------------------------------------------------------------------------
\* the permissions that are granted on tables: every grant set of the model
\* is built from these
TableGrants ==
    {read_entity("Table", n) : n \in Names} \cup {modify_entity("Table", n) : n \in Names}
    \cup {create_entity("Table")} \cup {get_table_data(n) : n \in Names}

\* C21: Channel.required_permission() keeps the entity families apart:
\* TableData(n) asks for GetTableData(n) and Table(n), Query(n), Script(n) for
\* the ReadEntity of their own family, so a caller who is not admin and holds
\* permissions on tables only is refused the Query and the Script channel of
\* the same name.
C21_FamiliesApart ==
    (last.n >= 1 /\ last.op.proc = "subscribeTo" /\ ~is_admin(last.caller)) =>
        /\ last.op.ch[1] = "TableData" =>
                required_permission(last.op.ch) = get_table_data(last.op.ch[2])
        /\ last.op.ch[1] \in {"Table", "Query", "Script"} =>
                required_permission(last.op.ch) = read_entity(last.op.ch[1], last.op.ch[2])
        /\ (last.op.ch[1] \in {"Query", "Script"} /\ Held \subseteq TableGrants) =>
                last.ret = Err("Unauthorized")

-----------------------------------------------------------------------------
\* the entries of the log as it was before the latest execution that lie in
\* the window of the request and on a channel its caller was subscribed to
InWindow ==
    {m \in {last.pre.log[i] : i \in 1..Len(last.pre.log)} :
        /\ last.op.start <= m.created_at
        /\ m.created_at < last.op.end
        /\ <<user_id(last.caller), m.channel>> \in last.pre.subs}

\* C22: GetMessages(start, end) refuses a caller who is not logged in; for a
\* logged-in caller, when the storage does not fail, it returns exactly the
\* log entries with start <= created_at < end on channels the caller is
\* subscribed to at the time of the call, each once, ordered by created_at
\* ascending; it changes neither the log nor anything else.
C22_WindowOfSubscribed ==
    (last.n >= 1 /\ last.op.proc = "getMessages") =>
        /\ db = last.pre
        /\ ~last.caller.logged_in => last.ret = Err("Unauthorized")
        /\ (last.caller.logged_in /\ last.f = "none") =>
                /\ last.ret.kind = "Ok"
                /\ {last.ret.list[i] : i \in 1..Len(last.ret.list)} = InWindow
                /\ Len(last.ret.list) = Cardinality(InWindow)
                /\ \A i, j \in 1..Len(last.ret.list) :
                        i < j => last.ret.list[i].created_at <= last.ret.list[j].created_at

\* a subscribed user has been answered two messages that the log holds in the
\* opposite order, while the log also holds a message of a channel the user
\* is not subscribed to inside the window
C22_Witness ==
    /\ last.n >= 1
    /\ last.op.proc = "getMessages"
    /\ last.ret.kind = "Ok"
    /\ Len(last.ret.list) = 2
    /\ last.ret.list[1].message_id > last.ret.list[2].message_id
    /\ \E i \in 1..Len(last.pre.log) :
            /\ last.op.start <= last.pre.log[i].created_at
            /\ last.pre.log[i].created_at < last.op.end
            /\ <<user_id(last.caller), last.pre.log[i].channel>> \notin last.pre.subs

-----------------------------------------------------------------------------
(* Properties of the session's frames and timers *)

\* the frames of one kind the session has sent
FramesOfKind(kind) == SelectSeq(sess.out, LAMBDA fr : fr.kind = kind)

\* C24: the session pings the client every 60 s with the payload "Hello"; a
\* session that has heard nothing from the client for 601 s is closed; and the
\* heartbeat closes a session only when more than 600 s have passed since the
\* client was last heard, so a client whose pongs keep arriving is not closed
\* by it.
C24_Heartbeat ==
    /\ sess.open =>
            /\ Len(FramesOfKind("ping")) = (sess.next_beat - HEARTBEAT_INTERVAL) \div HEARTBEAT_INTERVAL
            /\ clock - sess.last_beat >= HEARTBEAT_TIMEOUT + Second => FALSE
    /\ \A i \in 1..Len(sess.out) :
            sess.out[i].kind = "ping" => sess.out[i].text = HEARTBEAT_MESSAGE
    /\ sess.why = "timeout" => clock - sess.last_beat > HEARTBEAT_TIMEOUT

\* C25: a pong whose payload is not "Hello" closes the session; a pong
\* carrying "Hello" leaves it open and sends nothing; an inbound ping is
\* answered by one pong with the ping's payload and leaves the session open;
\* an inbound close frame stops the session; a stopped session does nothing
\* more.
C25_Step ==
    /\ InboundPong(HEARTBEAT_MESSAGE) => (sess'.open /\ sess'.out = sess.out)
    /\ (\E message \in Payloads \ {HEARTBEAT_MESSAGE} : InboundPong(message)) => ~sess'.open
    /\ \A x \in Payloads :
            InboundPing(x) => (sess'.open /\ sess'.out = Append(sess.out, PongFrame(x)))
    /\ InboundClose => ~sess'.open
    /\ ~sess.open => sess' = sess

C25_PongPingClose == [][C25_Step]_vars

\* a session that answered a ping by a pong with the ping's payload has then
\* been closed by a pong out of sync
C25_Witness ==
    /\ sess.why = "pong"
    /\ ~sess.open
    /\ \E i \in 1..Len(sess.out) : sess.out[i] = PongFrame("other")

\* C26: violations of the transport protocol close the session: a binary
\* frame closes it, and so does a pong out of sync.
C26_Step ==
    /\ InboundBinary => ~sess'.open
    /\ (\E message \in Payloads \ {HEARTBEAT_MESSAGE} : InboundPong(message)) => ~sess'.open

C26_ViolationsClose == [][C26_Step]_vars

\* C27: auth_header is empty when the session opens and changes only in the
\* handling of an authenticate frame whose token validates, which stores the
\* token and sends the frame "authenticated"; an authenticate frame whose
\* token does not validate sends {error: "Could not authenticate token"},
\* keeps the session open and leaves auth_header as it was; a call that
\* starts carries the header stored at that time.
C27_Step ==
    /\ sess'.auth_header # sess.auth_header =>
            \E token \in Tokens : ValidToken(token) /\ Authenticate(token)
    /\ \A token \in Tokens :
            Authenticate(token) =>
                IF ValidToken(token)
                THEN /\ sess'.auth_header = token
                     /\ sess'.out = Append(sess.out, TextFrame("authenticated"))
                     /\ sess'.open
                ELSE /\ sess'.auth_header = sess.auth_header
                     /\ sess'.out = Append(sess.out, ErrorFrame("Could not authenticate token"))
                     /\ sess'.open
    /\ (sess.pending.kind = "none" /\ sess'.pending.kind = "call") =>
            sess'.pending.auth = sess.auth_header

C27_AuthHeader == (sess.auth_header = NONE) /\ [][C27_Step]_vars

\* an authenticated session has refused a second token and kept its header
C27_Witness ==
    /\ sess.open
    /\ sess.auth_header = "tokA"
    /\ sess.out = <<TextFrame("authenticated"), ErrorFrame("Could not authenticate token")>>

\* what a request-level error leaves alone: the session stays open, no call
\* is started, and the header, the watermark and the database are unchanged
RequestErrorOnly(text) ==
    /\ sess'.out = Append(sess.out, ErrorFrame(text))
    /\ sess'.open
    /\ sess'.pending = sess.pending
    /\ sess'.auth_header = sess.auth_header
    /\ sess'.last_message = sess.last_message
    /\ db' = db

\* C28: request-level errors neither close the session nor change its state:
\* a text frame that is no inbound variant yields exactly the frame
\* {error: "Could not understand message"}; a call whose procedure is none of
\* the 25 recognized names yields exactly the frame
\* {error: "Did not understand procedure"} and runs no action; in both cases
\* the session stays open with auth_header and last_delivery unchanged.
C28_Step ==
    /\ InboundText => RequestErrorOnly("Could not understand message")
    /\ \A procedure \in ProcedureNames :
            CallUnknown(procedure) => RequestErrorOnly("Did not understand procedure")

C28_RequestErrors == (Cardinality(Procedures) = 25) /\ [][C28_Step]_vars

\* an open, authenticated session has answered a call of an unknown procedure
C28_Witness ==
    /\ sess.open
    /\ sess.auth_header = "tokA"
    /\ sess.pending.kind = "none"
    /\ sess.out = <<TextFrame("authenticated"), ErrorFrame("Did not understand procedure")>>

\* the step that ends a call puts exactly one frame on the socket: the result
\* of the action when the pipeline succeeded, an error frame otherwise
C29_Step ==
    (sess.pending.kind = "call" /\ sess'.pending.kind = "none") =>
        /\ Len(sess'.out) = Len(sess.out) + 1
        /\ SubSeq(sess'.out, 1, Len(sess.out)) = sess.out
        /\ sess'.open
        /\ LET fr == sess'.out[Len(sess'.out)]
           IN  \/ fr.kind = "error"
               \/ \E f \in Faults :
                     LET o == RunPipeline(db, ClaimsOf(sess.pending.auth), sess.pending.op, f)
                     IN  o.ret.kind = "Ok" /\ fr = TextFrame(o.ret.tag) /\ db' = o.db

\* C29: every call frame naming a recognized procedure, received on a session
\* that stays open, eventually results in exactly one outbound frame: the
\* result of the action when it succeeds, or an error frame when the action
\* fails, when the parameters do not deserialize, or when the worker does not
\* reply; and no frame is put on the socket while the call is under way.
C29_CallAnswered ==
    /\ [][C29_Step /\ (sess.pending.kind = "call" /\ sess'.pending.kind = "call"
                        => sess'.out = sess.out)]_vars
    /\ (sess.pending.kind = "call") ~> (sess.pending.kind = "none")

\* a call of an authenticated session has been answered with its result
C29_Witness ==
    /\ sess.open
    /\ sess.pending.kind = "none"
    /\ sess.out = <<TextFrame("authenticated"), TextFrame("Subscribed")>>

\* the frames a step has put on the socket
NewFrames == SubSeq(sess'.out, Len(sess.out) + 1, Len(sess'.out))

\* C30: the outbound frames of a session are totally ordered and emitted in
\* the order they become available: a step only adds frames after the frames
\* sent before; at most one request of the session is under way, so results
\* complete one at a time; the step that completes a call or a poll adds the
\* frames of that result and of no other, and any other step adds at most the
\* one frame that answers the inbound frame it handles.
C30_Step ==
    /\ Len(sess'.out) >= Len(sess.out)
    /\ SubSeq(sess'.out, 1, Len(sess.out)) = sess.out
    /\ (sess.pending.kind = "call" /\ sess'.pending.kind = "none") =>
            (Len(NewFrames) = 1 /\ NewFrames[1].kind \in {"text", "error"})
    /\ (sess.pending.kind = "poll" /\ sess'.pending.kind = "none") =>
            \/ Len(NewFrames) = 1 /\ NewFrames[1].kind = "error"
            \/ \E lst \in Answers(db, ClaimsOf(sess.pending.auth), sess.pending.start,
                                   sess.pending.end) :
                    NewFrames = [k \in 1..Len(lst) |-> MessageFrame(lst[k])]
    /\ sess.pending.kind = "none" =>
            (Len(NewFrames) <= 1 /\ (sess'.pending.kind # "none" => NewFrames = <<>>))
    /\ (sess.pending.kind # "none" /\ sess'.pending.kind # "none") => sess'.pending = sess.pending

C30_FramesInCompletionOrder == [][C30_Step]_vars

\* the response of a call is followed on the socket by a frame of a later
\* delivery poll
C30_Witness ==
    \E i, j \in 1..Len(sess.out) :
        /\ i < j
        /\ sess.out[i] = TextFrame("Subscribed")
        /\ sess.out[j].kind = "message"

-----------------------------------------------------------------------------
(* The end of a session *)

\* the connection goes away: the actor is stopped where it stands, with the
\* reply it may be waiting for
ConnectionDropped ==
    /\ sess.open
    /\ sess' = Stop(sess, "dropped")
    /\ UNCHANGED <<db, last, clock, ticks>>

\* a worker that finds the session gone hands its reply to it all the same
WorkerCompletes_delivers(f) ==
    /\ ~sess.open
    /\ sess.pending.kind # "none"
    /\ LET caller == ClaimsOf(sess.pending.auth)
       IN  \E lst \in Answers(db, caller, sess.pending.start, sess.pending.end) :
             LET o == IF sess.pending.kind = "poll"
                      THEN GetMessages_new(db, caller, lst, f)
                      ELSE RunPipeline(db, caller, sess.pending.op, f)
             IN  /\ db' = o.db
                 /\ sess' = [sess EXCEPT !.out = on_reply(sess, o),
                                         !.pending = NoPending]
    /\ UNCHANGED <<last, clock, ticks>>

\* the worker runs the action that was sent before the session stopped; the
\* future that would have handled the reply went with the actor
WorkerCompletes(f) ==
    /\ ~sess.open
    /\ sess.pending.kind # "none"
    /\ LET caller == ClaimsOf(sess.pending.auth)
       IN  \E lst \in Answers(db, caller, sess.pending.start, sess.pending.end) :
             LET o == IF sess.pending.kind = "poll"
                      THEN GetMessages_new(db, caller, lst, f)
                      ELSE RunPipeline(db, caller, sess.pending.op, f)
             IN  /\ db' = o.db
                 /\ sess' = [sess EXCEPT !.pending = NoPending]
    /\ UNCHANGED <<last, clock, ticks>>

\* an authenticated client with its timers, up to the end of the session
NextClosing ==
    \/ BeatTick(HEARTBEAT_INTERVAL)
    \/ HeartbeatProcess
    \/ MessageProcess
    \/ \E message \in Payloads : InboundPong(message)
    \/ InboundClose
    \/ \E op \in SessionOps : CallProcedure(op)
    \/ WorkerReply("none")
    \/ ConnectionDropped
    \/ \E f \in Faults : WorkerCompletes(f)

SpecClosing == InitAuthenticated /\ [][NextClosing]_vars

-----------------------------------------------------------------------------
(* Properties of the physical schema change of a Table *)

\* the request creates a Table that is not in the store, with a schema of
\* zero columns, the guard lets it through and the storage backend works
CreatesEmptyTable ==
    /\ ExecDone
    /\ last.op.proc = "create"
    /\ last.op.T = "Table"
    /\ columns_len(last.op.data) = 0
    /\ last.pre.store["Table"][last.op.name] = NONE
    /\ last.f = "none"
    /\ InTrace("begin")

C32_AlterInternalError ==
    (/\ ExecDone
     /\ last.op.proc = "update"
     /\ last.op.T = "Table"
     /\ last.pre.store["Table"][last.op.name] # NONE
     /\ InTrace("begin")) =>
        /\ last.ret = Err("Entity(InternalError)")
        /\ InTrace("rollback")
        /\ db.store = last.pre.store
        /\ db.log = last.pre.log

-----------------------------------------------------------------------------
(* kakapo_postgres/data.rs: Value and its JSON form.                        *)
(* A text is a sequence of one-character strings. A JSON value is a pair    *)
(* <<kind, payload>>; an object is a sequence of <<key, JSON value>> pairs. *)
(* A Value is a pair <<variant, content>>.                                  *)

Digits == <<"0", "1", "2", "3", "4", "5", "6", "7", "8", "9">>

IsDigit(c) == \E n \in 1..Len(Digits) : Digits[n] = c

DigitValue(c) == (CHOOSE n \in 1..Len(Digits) : Digits[n] = c) - 1

\* n written with two, or with four, decimal digits
Pad2(n) == <<Digits[((n \div 10) % 10) + 1], Digits[(n % 10) + 1]>>

Pad4(n) == Pad2(n \div 100) \o Pad2(n % 100)

AllDigits(s) == \A i \in 1..Len(s) : IsDigit(s[i])

RECURSIVE Number(_)
Number(s) == IF s = <<>> THEN 0 ELSE 10 * Number(SubSeq(s, 1, Len(s) - 1)) + DigitValue(s[Len(s)])

DaysIn(y, m) ==
    IF m = 2 THEN (IF y % 4 = 0 /\ (y % 100 # 0 \/ y % 400 = 0) THEN 29 ELSE 28)
    ELSE IF m \in {4, 6, 9, 11} THEN 30 ELSE 31

\* chrono: a NaiveDate <<year, month, day>> is written %Y-%m-%d
format_date(d) == Pad4(d[1]) \o <<"-">> \o Pad2(d[2]) \o <<"-">> \o Pad2(d[3])

\* chrono: NaiveDate from text; <<TRUE, date>> or <<FALSE, <<>>>>
parse_date(s) ==
    IF /\ Len(s) = 10
       /\ s[5] = "-"
       /\ s[8] = "-"
       /\ AllDigits(SubSeq(s, 1, 4) \o SubSeq(s, 6, 7) \o SubSeq(s, 9, 10))
    THEN LET y == Number(SubSeq(s, 1, 4))
             m == Number(SubSeq(s, 6, 7))
             d == Number(SubSeq(s, 9, 10))
         IN  IF m \in 1..12 /\ d >= 1 /\ d <= DaysIn(y, m) THEN <<TRUE, <<y, m, d>>>>
             ELSE <<FALSE, <<>>>>
    ELSE <<FALSE, <<>>>>

\* chrono: a NaiveDateTime <<year, month, day, hour, minute, second>> of whole
\* seconds is written %Y-%m-%dT%H:%M:%S
format_date_time(t) ==
    format_date(<<t[1], t[2], t[3]>>) \o <<"T">> \o Pad2(t[4]) \o <<":">> \o Pad2(t[5])
        \o <<":">> \o Pad2(t[6])

parse_date_time(s) ==
    IF /\ Len(s) = 19
       /\ s[11] = "T"
       /\ s[14] = ":"
       /\ s[17] = ":"
       /\ AllDigits(SubSeq(s, 12, 13) \o SubSeq(s, 15, 16) \o SubSeq(s, 18, 19))
       /\ parse_date(SubSeq(s, 1, 10))[1]
    THEN LET d == parse_date(SubSeq(s, 1, 10))[2]
             h == Number(SubSeq(s, 12, 13))
             mi == Number(SubSeq(s, 15, 16))
             sec == Number(SubSeq(s, 18, 19))
         IN  IF h <= 23 /\ mi <= 59 /\ sec <= 59 THEN <<TRUE, d \o <<h, mi, sec>>>>
             ELSE <<FALSE, <<>>>>
    ELSE <<FALSE, <<>>>>

\* the base64 crate: the standard alphabet with padding
Base64Alphabet ==
    <<"A", "B", "C", "D", "E", "F", "G", "H", "I", "J", "K", "L", "M", "N", "O", "P",
      "Q", "R", "S", "T", "U", "V", "W", "X", "Y", "Z", "a", "b", "c", "d", "e", "f",
      "g", "h", "i", "j", "k", "l", "m", "n", "o", "p", "q", "r", "s", "t", "u", "v",
      "w", "x", "y", "z", "0", "1", "2", "3", "4", "5", "6", "7", "8", "9", "+", "/">>

Sextet(n) == Base64Alphabet[n + 1]

IsBase64(c) == \E n \in 1..Len(Base64Alphabet) : Base64Alphabet[n] = c

SextetValue(c) == (CHOOSE n \in 1..Len(Base64Alphabet) : Base64Alphabet[n] = c) - 1

RECURSIVE base64_encode(_)
base64_encode(bytes) ==
    IF Len(bytes) = 0 THEN <<>>
    ELSE IF Len(bytes) = 1
    THEN <<Sextet(bytes[1] \div 4), Sextet((bytes[1] % 4) * 16), "=", "=">>
    ELSE IF Len(bytes) = 2
    THEN <<Sextet(bytes[1] \div 4), Sextet((bytes[1] % 4) * 16 + bytes[2] \div 16),
           Sextet((bytes[2] % 16) * 4), "=">>
    ELSE <<Sextet(bytes[1] \div 4), Sextet((bytes[1] % 4) * 16 + bytes[2] \div 16),
           Sextet((bytes[2] % 16) * 4 + bytes[3] \div 64), Sextet(bytes[3] % 64)>>
         \o base64_encode(SubSeq(bytes, 4, Len(bytes)))

\* the bytes of well-placed symbols, whatever their trailing bits
RECURSIVE Base64Bytes(_)
Base64Bytes(s) ==
    IF Len(s) = 0 THEN <<>>
    ELSE LET a == SextetValue(s[1])
             b == SextetValue(s[2])
         IN  IF s[3] = "=" THEN <<a * 4 + b \div 16>>
             ELSE LET c == SextetValue(s[3])
                  IN  IF s[4] = "=" THEN <<a * 4 + b \div 16, (b % 16) * 16 + c \div 4>>
                      ELSE <<a * 4 + b \div 16, (b % 16) * 16 + c \div 4,
                             (c % 4) * 64 + SextetValue(s[4])>>
                           \o Base64Bytes(SubSeq(s, 5, Len(s)))

\* "=" only as the last one or two symbols of the text
WellPlaced(s) ==
    /\ Len(s) % 4 = 0
    /\ \A i \in 1..Len(s) :
            \/ IsBase64(s[i])
            \/ s[i] = "=" /\ i >= Len(s) - 1 /\ (i = Len(s) - 1 => s[Len(s)] = "=")

\* base64::decode: <<TRUE, bytes>> or <<FALSE, <<>>>>
base64_decode(s) ==
    IF WellPlaced(s) /\ base64_encode(Base64Bytes(s)) = s THEN <<TRUE, Base64Bytes(s)>>
    ELSE <<FALSE, <<>>>>

\* serde_json::Value
JNull == <<"null", <<>>>>

JBool(b) == <<"bool", b>>

JInt(n) == <<"int", n>>

JFloat(x) == <<"float", x>>

JString(s) == <<"string", s>>

JArray(items) == <<"array", items>>

JObject(members) == <<"object", members>>

\* f64 values by name; "inf" is not finite
Finite(x) == x # "inf"

HasMember(j, key) == \E i \in 1..Len(j[2]) : j[2][i][1] = key

Member(j, key) == j[2][CHOOSE i \in 1..Len(j[2]) : j[2][i][1] = key][2]

\* Serialize of the untagged enum: the content of the variant alone, through
\* date_time_serde, date_serde and binary_serde for the three wrapped variants
to_value(v) ==
    CASE v[1] = "Null" -> JNull
      [] v[1] = "String" -> JString(v[2])
      [] v[1] = "Integer" -> JInt(v[2])
      [] v[1] = "Float" -> IF Finite(v[2]) THEN JFloat(v[2]) ELSE JNull
      [] v[1] = "Boolean" -> JBool(v[2])
      [] v[1] = "DateTime" -> JObject(<< <<"$timestamp", JString(format_date_time(v[2]))>> >>)
      [] v[1] = "Date" -> JObject(<< <<"$date", JString(format_date(v[2]))>> >>)
      [] v[1] = "Binary" -> JObject(<< <<"$binary", JString(base64_encode(v[2]))>> >>)
      [] v[1] = "Json" -> v[2]

\* Deserialize of a struct of one field from buffered content: a map that has
\* the field (other members are ignored) or a sequence of exactly one element;
\* <<TRUE, the field's JSON value>> or <<FALSE, JNull>>
StructField(j, key) ==
    IF j[1] = "object" /\ HasMember(j, key) THEN <<TRUE, Member(j, key)>>
    ELSE IF j[1] = "array" /\ Len(j[2]) = 1 THEN <<TRUE, j[2][1]>>
    ELSE <<FALSE, JNull>>

\* the text of a struct's field, parsed by `parse`
FieldParsed(j, key, parse(_)) ==
    LET fld == StructField(j, key)
    IN  IF fld[1] /\ fld[2][1] = "string" THEN parse(fld[2][2]) ELSE <<FALSE, <<>>>>

\* Deserialize of the untagged enum: the first variant, in declaration order,
\* that accepts the content
from_value(j) ==
    IF j[1] = "null" THEN <<"Null", <<>>>>
    ELSE IF j[1] = "string" THEN <<"String", j[2]>>
    ELSE IF j[1] = "int" THEN <<"Integer", j[2]>>
    ELSE IF j[1] = "float" THEN <<"Float", j[2]>>
    ELSE IF j[1] = "bool" THEN <<"Boolean", j[2]>>
    ELSE IF FieldParsed(j, "$timestamp", parse_date_time)[1]
    THEN <<"DateTime", FieldParsed(j, "$timestamp", parse_date_time)[2]>>
    ELSE IF FieldParsed(j, "$date", parse_date)[1]
    THEN <<"Date", FieldParsed(j, "$date", parse_date)[2]>>
    ELSE IF FieldParsed(j, "$binary", base64_decode)[1]
    THEN <<"Binary", FieldParsed(j, "$binary", base64_decode)[2]>>
    ELSE <<"Json", j>>

\* the Values the round trip is tried on
Texts == {<<>>, <<"H", "i">>, format_date(<<2019, 4, 20>>)}

Dates == {<<2019, 4, 20>>, <<2020, 2, 29>>, <<1999, 12, 31>>}

DateTimes == {<<2019, 4, 20, 16, 20, 0>>, <<2020, 2, 29, 0, 0, 0>>, <<1999, 12, 31, 23, 59, 59>>}

ByteStrings == {<<>>, <<0>>, <<255, 255>>, <<222, 173, 190, 239>>}

Scalars ==
    {JNull, JBool(TRUE), JInt(42), JFloat("1.0"), JString(<<"H", "i">>),
     JString(format_date(<<2019, 4, 20>>)),
     JString(format_date_time(<<2019, 4, 20, 16, 20, 0>>)),
     JString(base64_encode(<<222, 173, 190, 239>>))}

\* documents: arrays of at most one scalar, and objects of one or two members
Documents ==
    {JArray(<<>>)}
    \cup {JArray(<<x>>) : x \in Scalars}
    \cup {JObject(<< <<key, x>> >>) :
            key \in {"hello", "$timestamp", "$date", "$binary"}, x \in Scalars}
    \cup {JObject(<< <<key, x>>, <<"hello", JInt(42)>> >>) :
            key \in {"$timestamp", "$date"},
            x \in {JString(format_date(<<2019, 4, 20>>)),
                   JString(format_date_time(<<2019, 4, 20, 16, 20, 0>>))}}

Values ==
    {<<"Null", <<>>>>}
    \cup {<<"String", x>> : x \in Texts}
    \cup {<<"Integer", n>> : n \in {0 - 7, 0, 42}}
    \cup {<<"Float", x>> : x \in {"3.141592", "1.0", "0.5"}}
    \cup {<<"Boolean", b>> : b \in BOOLEAN}
    \cup {<<"DateTime", x>> : x \in DateTimes}
    \cup {<<"Date", x>> : x \in Dates}
    \cup {<<"Binary", x>> : x \in ByteStrings}
    \cup {<<"Json", j>> : j \in Scalars \cup Documents}

\* `last` holds one round trip: the Value, its JSON form once it is
\* serialized, and the Value parsed from that once it is deserialized
InitValue ==
    /\ db = EmptyDb
    /\ \E v \in Values :
            last = [step |-> "value", value |-> v, json |-> JNull, parsed |-> <<"Null", <<>>>>]
    /\ sess = NewSession(0)
    /\ clock = 0
    /\ ticks = 0

\* serde_json::to_value(&v)
Serialize ==
    /\ last.step = "value"
    /\ last' = [last EXCEPT !.step = "serialized", !.json = to_value(last.value)]
    /\ UNCHANGED <<db, sess, clock, ticks>>

\* serde_json::from_value::<Value>(json)
Deserialize ==
    /\ last.step = "serialized"
    /\ last' = [last EXCEPT !.step = "parsed", !.parsed = from_value(last.json)]
    /\ UNCHANGED <<db, sess, clock, ticks>>

NextValue == Serialize \/ Deserialize

SpecValue == InitValue /\ [][NextValue]_vars

-----------------------------------------------------------------------------
(* Properties of the JSON form of Value *)

\* C33: for every Value v (Null, String, Integer, Float, Boolean, DateTime
\* as {"$timestamp": ...}, Date as {"$date": ...}, Binary as {"$binary":
\* base64} and Json, which is passed through as it is), the Value parsed from
\* the serialized v equals v: the same variant with the same content
C33_RoundTrip == last.step = "parsed" => last.parsed = last.value

-----------------------------------------------------------------------------
(* Properties of a closed session *)

\* C34: once a session is closed (close frame, heartbeat timeout, pong
\* mismatch or dropped connection) no further frame is emitted on it: the step
\* that closes it emits nothing, a closed session stays closed with the frames
\* it had, the heartbeat and delivery timers no longer run, and a worker
\* action that was in flight runs to completion while its result is dropped
C34_Step ==
    /\ (sess.open /\ ~sess'.open) => sess'.out = sess.out
    /\ ~sess.open =>
            /\ ~sess'.open
            /\ sess'.out = sess.out
            /\ sess'.next_beat = sess.next_beat
            /\ sess'.next_poll = sess.next_poll
            /\ sess'.pending # sess.pending =>
                    /\ sess'.pending = NoPending
                    /\ sess.pending.kind = "call" =>
                            \E f \in Faults :
                                db' = RunPipeline(db, ClaimsOf(sess.pending.auth),
                                                  sess.pending.op, f).db

C34_ClosedIsSilent == [][C34_Step]_vars

\* the connection was dropped while a subscribeTo was in flight: the worker
\* has subscribed the user, and the session never got the frame of the result
C34_Witness ==
    /\ ~sess.open
    /\ sess.why = "dropped"
    /\ sess.pending.kind = "none"
    /\ <<"A", ChTable("t1")>> \in db.subs
    /\ \A i \in 1..Len(sess.out) : sess.out[i] # TextFrame("Subscribed")

-----------------------------------------------------------------------------
(* Properties of the order in which a pipeline's decorators act *)

\* the positions of event e in the trace of the last execution
At(e) == {i \in 1..Len(last.trace) : last.trace[i] = e}

Before(a, b) == \A i \in At(a), j \in At(b) : i < j

ReadAndPubSubProcs ==
    {"get", "runQuery", "subscribeTo", "unsubscribeFrom", "unsubscribeAll", "getSubscribers",
     "getMessages"}

-----------------------------------------------------------------------------
(* Properties of the watermark and the windows of the polls *)

\* a step in which the session sends a poll to the worker
PollIssued == sess'.pending.kind = "poll" /\ sess'.pending # sess.pending

\* the delivery timer has not fired yet: it is still set to the time that
\* started() gave it
NoPollYet == sess.next_poll = sess.opened_at + MESSAGE_INTERVAL

\* C36: the watermark never decreases and moves only when a poll is issued;
\* a poll is issued only when no request is outstanding; its window starts
\* where the previous window ended (the watermark, which is the session's
\* open time before the first poll), ends at the new watermark, and is not
\* inverted.
C36_Step ==
    /\ sess'.last_message >= sess.last_message
    /\ sess'.last_message # sess.last_message => PollIssued
    /\ NoPollYet => sess.last_message = sess.opened_at
    /\ sess.pending.kind = "poll" => sess.pending.end = sess.last_message
    /\ PollIssued =>
            /\ sess.pending.kind = "none"
            /\ sess'.pending.start = sess.last_message
            /\ sess'.pending.end = sess'.last_message
            /\ sess'.pending.start <= sess'.pending.end
            /\ NoPollYet => sess'.pending.start = sess.opened_at
            /\ ~NoPollYet'

C36_ContiguousWindows == [][C36_Step]_vars

\* the second poll is outstanding: its window starts where the first ended
C36_Witness ==
    /\ sess.pending.kind = "poll"
    /\ sess.pending.start = sess.opened_at + MESSAGE_INTERVAL - MESSAGE_LAG
    /\ sess.pending.end = sess.opened_at + 2 * MESSAGE_INTERVAL - MESSAGE_LAG

-----------------------------------------------------------------------------
(* Properties of a session that follows an earlier one of the same user *)

\* the log holds a message on a channel of A's subscriptions that was
\* published while the first session was open and is older than the present
\* session
OlderMessageLogged ==
    \E i \in 1..Len(db.log) :
        /\ 0 <= db.log[i].created_at
        /\ db.log[i].created_at < sess.opened_at
        /\ <<"A", db.log[i].channel>> \in db.subs

\* C37: a session's watermark starts at the session's own open time and never
\* lies before it, whatever the watermark of the user's earlier session was;
\* no window of its polls reaches before its open time and no frame it emits
\* carries a message created before its open time.
C37_FreshWatermark ==
    /\ NoPollYet => sess.last_message = sess.opened_at
    /\ sess.last_message >= sess.opened_at
    /\ sess.pending.kind = "poll" => sess.pending.start >= sess.opened_at
    /\ \A i \in 1..Len(sess.out) :
            sess.out[i].kind = "message" => sess.out[i].at >= sess.opened_at

\* the second session has delivered a message while the log holds an older
\* one that the first session never polled for
C37_Witness ==
    /\ sess.opened_at > 0
    /\ OlderMessageLogged
    /\ \E i \in 1..Len(sess.out) : sess.out[i].kind = "message"

-----------------------------------------------------------------------------
(* Properties of writes that change nothing *)

\* the leaf of the last execution answered Ok and left the store as it was:
\* AlreadyExists or NotFound under the Ignore policy
NoOpSuccess ==
    /\ ExecDone /\ last.op.proc \in WriteProcs /\ InTrace("leaf")
    /\ LeafOf(last.pre, last.caller, last.op, last.f).ret.kind = "Ok"
    /\ LeafOf(last.pre, last.caller, last.op, last.f).db.store = last.pre.store

-----------------------------------------------------------------------------
(* Properties of a session that has not authenticated *)

\* a step in which the reply to a poll sent without claims reaches the session
UnauthenticatedPollAnswered ==
    /\ sess.pending.kind = "poll" /\ sess.pending.auth = NONE
    /\ sess'.open /\ sess'.pending.kind = "none"

\* C39: a session whose auth_header is unset holds no frame carrying a log
\* message; a poll issued while it is unset is sent without claims; such a
\* poll is refused by the login guard with Unauthorized before a transaction
\* is opened or the leaf reads the log, whatever the storage would answer,
\* and its reply puts one error frame on the socket and changes nothing in
\* the database.
C39_Step ==
    /\ sess'.auth_header = NONE =>
            \A i \in 1..Len(sess'.out) : sess'.out[i].kind # "message"
    /\ (PollIssued /\ sess.auth_header = NONE) => sess'.pending.auth = NONE
    /\ UnauthenticatedPollAnswered =>
            /\ \A f \in Faults :
                 \A lst \in Answers(db, NoClaims, sess.pending.start, sess.pending.end) :
                    /\ GetMessages_new(db, ClaimsOf(sess.pending.auth), lst, f).ret
                            = Err("Unauthorized")
                    /\ GetMessages_new(db, ClaimsOf(sess.pending.auth), lst, f).trace
                            = <<"guard">>
            /\ db' = db
            /\ sess'.out \in {Append(sess.out, ErrorFrame("Unauthorized")),
                               Append(sess.out, ErrorFrame("MailboxError"))}

C39_NoDeliveryBeforeLogin == [][C39_Step]_vars

\* an unauthenticated session has been refused a poll while the log held a
\* message inside the poll's window
C39_Witness ==
    /\ sess.auth_header = NONE
    /\ \E i \in 1..Len(sess.out) : sess.out[i] = ErrorFrame("Unauthorized")
    /\ \E i \in 1..Len(db.log) :
            /\ sess.opened_at <= db.log[i].created_at
            /\ db.log[i].created_at < sess.last_message

-----------------------------------------------------------------------------
(* Properties of the channels a write is dispatched on *)

\* Channels::AllQueries
AllQueries == <<"AllQueries", "">>

\* the channels of the family of entity type T: the one of all its entities
\* and the one of the entity of that name
FamilyAll(T) == IF T = "Table" THEN AllTables ELSE AllQueries

FamilyEntity(T, name) == IF T = "Table" THEN ChTable(name) ELSE ChQuery(name)

\* C40: a write that reaches the dispatch is dispatched on channels of the
\* family of the entity written: an update or delete of T(name) on exactly
\* the all-entities channel of T and the entity channel of T for that name, a
\* create of T on the all-entities channel of T.
C40_ChannelsOfFamily ==
    (ExecDone /\ last.op.proc \in WriteProcs /\ InTrace("dispatch")) =>
        ChannelsOf(last.op) =
            IF last.op.proc = "create" THEN {FamilyAll(last.op.T)}
            ELSE {FamilyAll(last.op.T), FamilyEntity(last.op.T, last.op.name)}

====
